---- MODULE Spec2Model ----
(***************************************************************************)
(* Model of the firegurad ingestion-to-notification pipeline:              *)
(*   - the SQLite cache          (src/src/frcm/database/db.py)             *)
(*   - the caching gateway       (src/src/frcm/fireriskmodel/              *)
(*                                compute_cached.py)                       *)
(*   - the danger tier tracker and MQTT publisher                          *)
(*                               (src/src/frcm/notification/)              *)
(*   - the scheduled poller      (src/src/frcm/worker/                     *)
(*                                scheduled_harvester.py)                  *)
(***************************************************************************)
EXTENDS Integers, Sequences, FiniteSets, TLC

VARIABLES
    dbfiles,      \* path -> the two tables of the SQLite file at that path
    database,     \* the module-level _database singleton: <<>> or <<path>>
    now,          \* the wall clock read by datetime.now(timezone.utc)
    ret,          \* the last operation on the cache or gateway and its outcome
    computeCalls, \* number of invocations of compute_raw so far
    storedKey,    \* history: content -> key returned by its first store
    lastRisk,     \* history: key -> series of the most recent risk write
    firstResult   \* history: path, content -> first result of a cached gateway call

cacheVars == <<dbfiles, database, now, ret, computeCalls, storedKey, lastRisk,
               firstResult>>

VARIABLES
    enabled,            \* NotificationService.config.enabled
    client,             \* NotificationService.client: <<>>, or the state of
                        \* its broker connection: <<"connected">>,
                        \* <<"disconnected">> (by disconnect()) or
                        \* <<"abandoned">> (the caller left without it)
    last_danger_level,  \* NotificationService.last_danger_level: <<>> or <<tier>>
    published,          \* the client.publish calls issued so far, in order
    fed,                \* history: ttf of the last point of each series notified
    notifyRet           \* the last publish_fire_risk_change call: the length
                        \* of its series, whether it raised, and the ttf of
                        \* the point of the series with the greatest timestamp

notifyVars == <<enabled, client, last_danger_level, published, fed, notifyRet>>

VARIABLES
    ttfIn,    \* the argument of FireDangerLevel.from_ttf
    tierOut   \* <<>> before the call, <<tier>> after it

classifyVars == <<ttfIn, tierOut>>

VARIABLES
    running,      \* ScheduledHarvester.running
    pc,           \* where run() stands: "idle", "top", "begin", "cycle",
                  \* "after", "sleep", "handler", "retry_sleep" or "returned"
    idx,          \* index of the location the for loop of the cycle is at
    loc,          \* location -> what the current cycle did for it
    cycles,       \* number of cycles (fetch_and_process calls) started
    fetchCalls,   \* number of fetch_weather_data calls made
    stopInSleep,  \* history: stop() was invoked during the current sleep
    stopAt,       \* history: where run() stood at the first stop() since run()
                  \* was entered
    lostStop,     \* history: stop() was invoked before run() was entered, and
                  \* neither a later stop() nor the end of the first cycle
                  \* has followed
    failures,     \* history: number of consecutive cycles that raised
    sleepArg,     \* history: the argument of the last time.sleep call
    monitored,    \* self.config.locations: the locations the for loop visits
    prevFailed    \* history: the locations whose fetch failed in the previous
                  \* cycle, each forgotten once the loop is past its successor

pollerVars == <<running, pc, idx, loc, cycles, fetchCalls, stopInSleep, stopAt,
                lostStop, failures, sleepArg, monitored, prevFailed>>

VARIABLES
    mode,       \* concurrent callers: the operation they call, whether they are
                \* threads of one process, and how many they are
    callers,    \* caller -> where its call stands, its connection, its outcome
    singleton,  \* the shared Database instance: 0 or the thread that created it
    writeLock   \* 0 or the connection whose open transaction holds the
                \* write lock of the SQLite file

concVars == <<mode, callers, singleton, writeLock>>

VARIABLE
    fp          \* two observation sets, the keys _compute_hash gave for them
                \* and whether each has been stored

VARIABLES
    parseCall,  \* the last call of _parse_met_response: its timeseries and
                \* what it returned or raised
    acc         \* the Database instances get_database has created, which of
                \* them _database refers to, and the last call on them

auxVars == <<parseCall, acc>>

vars == <<cacheVars, notifyVars, classifyVars, pollerVars, concVars, fp, auxVars>>

nonCacheVars == <<notifyVars, classifyVars, pollerVars, concVars, fp, auxVars>>
nonNotifyVars == <<cacheVars, classifyVars, pollerVars, concVars, fp, auxVars>>
nonClassifyVars == <<cacheVars, notifyVars, pollerVars, concVars, fp, auxVars>>
nonPollerVars == <<cacheVars, notifyVars, classifyVars, concVars, fp, auxVars>>

(***************************************************************************)
(* Bounds of the model.                                                    *)
(***************************************************************************)
MaxLen == 2          \* longest observation set / risk series
MaxTime == 2         \* observation timestamps are 1..MaxTime
MaxClock == 1        \* the wall clock runs over 0..MaxClock
MaxRows == 2         \* cap on the rows of one table
MaxCalls == 3        \* cap on the compute_raw invocation counter
TtfScale == 2        \* ttf values are fixed-point: TtfScale units per minute
MaxTtf == 62         \* greatest ttf classified, in minutes
MaxNotify == 2       \* cap on the notify calls recorded in fed
NumLocations == 2    \* number of configured locations
NumCallers == 3      \* greatest number of concurrent callers of the cache
MaxEntries == 2      \* longest timeseries handed to _parse_met_response
MaxInstances == 3    \* cap on the Database instances get_database creates
MaxRuns == 2         \* a new service is constructed while fewer publishes were made
MaxCycles == 2       \* cap on the number of cycles run() starts

(***************************************************************************)
(* Data model (frcm.datamodel.model).                                      *)
(***************************************************************************)
None == <<>>
Some(x) == <<x>>

Timestamps == 1..MaxTime
Temperatures == {10, 15}
Humidities == {50, 80}
WindSpeeds == {4, 5}

WeatherDataPoint ==
    [timestamp : Timestamps, temperature : Temperatures,
     humidity : Humidities, wind_speed : WindSpeeds]

SeqsUpTo(S, n) == UNION {[1..k -> S] : k \in 0..n}

\* every WeatherData value (its .data list) within the bounds
AllWeatherData == SeqsUpTo(WeatherDataPoint, MaxLen)

Pt(t, temp, hum, wind) ==
    [timestamp |-> t, temperature |-> temp, humidity |-> hum, wind_speed |-> wind]

\* to_json that leaves the wind speed out
RECURSIVE MutToJsonNoWind(_)
MutToJsonNoWind(wd) ==
    IF wd = <<>> THEN <<>>
    ELSE <<wd[1].timestamp, wd[1].temperature, wd[1].humidity>>
         \o MutToJsonNoWind(Tail(wd))

\* WeatherData.to_json(): the point data serialised in order, field by field
RECURSIVE to_json(_)
to_json(wd) ==
    IF wd = <<>> THEN <<>>
    ELSE <<wd[1].timestamp, wd[1].temperature, wd[1].humidity, wd[1].wind_speed>>
         \o to_json(Tail(wd))

\* WeatherData.model_validate_json(): parse the serialised points back
RECURSIVE weather_validate_json(_)
weather_validate_json(js) ==
    IF Len(js) < 4 THEN <<>>
    ELSE <<Pt(js[1], js[2], js[3], js[4])>>
         \o weather_validate_json(SubSeq(js, 5, Len(js)))

FireRisk(t, v) == [timestamp |-> t, ttf |-> v]

\* FireRiskPrediction.model_dump_json(): the firerisks serialised in order
RECURSIVE model_dump_json(_)
model_dump_json(pred) ==
    IF pred = <<>> THEN <<>>
    ELSE <<pred[1].timestamp, pred[1].ttf>> \o model_dump_json(Tail(pred))

\* FireRiskPrediction.model_validate_json()
RECURSIVE model_validate_json(_)
model_validate_json(js) ==
    IF Len(js) < 2 THEN <<>>
    ELSE <<FireRisk(js[1], js[2])>> \o model_validate_json(SubSeq(js, 3, Len(js)))

\* frcm.fireriskmodel.compute.compute at one point: a deterministic function of
\* the measurements (the formula itself is an external capability)
ComputeTtf(p) == p.humidity - 3 * p.temperature - p.wind_speed

\* compute_raw: one FireRisk per observation point, index-aligned
compute_raw(wd) == [i \in 1..Len(wd) |-> FireRisk(wd[i].timestamp, ComputeTtf(wd[i]))]

(***************************************************************************)
(* The cache: Database (db.py).  A database file is a record of its two    *)
(* tables, each a sequence of rows in insertion order (id = position).     *)
(***************************************************************************)
EmptyDb == [weather_data |-> <<>>, fire_risk_predictions |-> <<>>]

\* hashlib.sha256(...).hexdigest(), idealised as collision free
sha256(s) == <<"sha256", s>>

\* Database._compute_hash
compute_hash(weather_data) == sha256(to_json(weather_data))

HasWeatherRow(db, h) ==
    \E i \in 1..Len(db.weather_data) : db.weather_data[i].data_hash = h

WeatherRow(db, weather_data, t) ==
    [id |-> Len(db.weather_data) + 1,
     data_hash |-> compute_hash(weather_data),
     start_time |-> IF Len(weather_data) > 0 THEN weather_data[1].timestamp ELSE t,
     end_time |-> IF Len(weather_data) > 0
                  THEN weather_data[Len(weather_data)].timestamp ELSE t,
     data_json |-> to_json(weather_data),
     created_at |-> t]

\* store_weather_data with the UNIQUE constraint on data_hash dropped
MutStoreNoUnique(db, weather_data, t) ==
    [db |-> [db EXCEPT !.weather_data = Append(@, WeatherRow(db, weather_data, t))],
     result |-> compute_hash(weather_data)]

\* Database.store_weather_data at clock reading t: the new file and the result
store_weather_data(db, weather_data, t) ==
    LET data_hash == compute_hash(weather_data)
    IN  IF HasWeatherRow(db, data_hash)
        THEN \* sqlite3.IntegrityError on the UNIQUE column: swallowed
             [db |-> db, result |-> data_hash]
        ELSE [db |-> [db EXCEPT !.weather_data =
                        Append(@, WeatherRow(db, weather_data, t))],
              result |-> data_hash]

\* get_weather_data whose SELECT has no WHERE clause: the first row is returned
MutGetWeatherFirstRow(db, data_hash) ==
    IF db.weather_data # <<>>
    THEN Some(weather_validate_json(db.weather_data[1].data_json))
    ELSE None

\* Database.get_weather_data: None or Some(WeatherData)
get_weather_data(db, data_hash) ==
    IF HasWeatherRow(db, data_hash)
    THEN LET i == CHOOSE j \in 1..Len(db.weather_data) :
                      db.weather_data[j].data_hash = data_hash
         IN  Some(weather_validate_json(db.weather_data[i].data_json))
    ELSE None

\* store_fire_risk_prediction as an upsert: the rows the key had are replaced
MutStoreRiskReplace(db, weather_data_hash, prediction, t) ==
    LET NotOfKey(row) == row.weather_data_hash # weather_data_hash
        kept == SelectSeq(db.fire_risk_predictions, NotOfKey)
    IN  [db EXCEPT !.fire_risk_predictions = Append(kept,
            [id |-> Len(kept) + 1,
             weather_data_hash |-> weather_data_hash,
             prediction_json |-> model_dump_json(prediction),
             created_at |-> t])]

\* store_fire_risk_prediction whose INSERT is lost
MutStoreRiskDrop(db, weather_data_hash, prediction, t) == db

\* Database.store_fire_risk_prediction at clock reading t
store_fire_risk_prediction(db, weather_data_hash, prediction, t) ==
    [db EXCEPT !.fire_risk_predictions = Append(@,
        [id |-> Len(db.fire_risk_predictions) + 1,
         weather_data_hash |-> weather_data_hash,
         prediction_json |-> model_dump_json(prediction),
         created_at |-> t])]

RiskRowsOf(db, h) ==
    {i \in 1..Len(db.fire_risk_predictions) :
        db.fire_risk_predictions[i].weather_data_hash = h}

\* the rows ORDER BY created_at DESC LIMIT 1 may select: any row of the key
\* whose created_at is greatest (SQL leaves the order among equal keys open)
NewestRiskRows(db, h) ==
    {i \in RiskRowsOf(db, h) :
        \A j \in RiskRowsOf(db, h) :
            db.fire_risk_predictions[j].created_at
                <= db.fire_risk_predictions[i].created_at}

\* a lookup that deletes what it has read
MutSelectDeletes(db) == EmptyDb

\* the file after the SELECT of get_weather_data (lines 122-124) or of
\* get_fire_risk_prediction (lines 160-165): nothing is written or committed
AfterSelect(db) == db

\* get_fire_risk_prediction whose query matches no row
MutGetRiskNone(db, weather_data_hash) == {None}

\* Database.get_fire_risk_prediction: the set of values the call may return
get_fire_risk_prediction(db, weather_data_hash) ==
    IF RiskRowsOf(db, weather_data_hash) = {}
    THEN {None}
    ELSE {Some(model_validate_json(db.fire_risk_predictions[i].prediction_json)) :
            i \in NewestRiskRows(db, weather_data_hash)}

(***************************************************************************)
(* The gateway: compute_with_cache (compute_cached.py).                    *)
(***************************************************************************)
\* get_database: the singleton after a call with db_path (an instance on
\* another path is closed and replaced)
get_database(dbs, db_path) == Some(db_path)

\* _initialize_db replaced by DROP TABLE and CREATE TABLE
MutInitializeDbFresh(file) == EmptyDb

\* Database._initialize_db on the file of the path: CREATE TABLE IF NOT EXISTS
\* creates the tables of a new file and keeps the rows of an existing one
\* (every write is committed before its method returns, so close() loses none)
initialize_db(file) == file

\* the file a call of get_database then works on: opened anew unless the
\* singleton already holds the path
OpenedFile(files, dbs, db_path) ==
    IF dbs = Some(db_path) THEN files[db_path] ELSE initialize_db(files[db_path])

\* lines 23-24: use_cache is false
UncachedBranch(files, dbs, wd, raises) ==
    {[files |-> files, database |-> dbs, computed |-> TRUE, raised |-> raises,
      result |-> IF raises THEN None ELSE Some(compute_raw(wd))]}

\* the cached branch that writes a risk row before compute_raw is invoked, so
\* that a row is left behind when compute_raw raises
MutCachedBranchPoisons(files, dbs, wd, db_path, t, t2, raises) ==
    LET r == store_weather_data(OpenedFile(files, dbs, db_path), wd, t)
        data_hash == r.result
        prediction == compute_raw(wd)
        Outcome(cached_prediction) ==
            IF cached_prediction # None
            THEN [files |-> [files EXCEPT ![db_path] = r.db],
                  database |-> get_database(dbs, db_path),
                  computed |-> FALSE, raised |-> FALSE,
                  result |-> cached_prediction]
            ELSE [files |-> [files EXCEPT ![db_path] =
                     store_fire_risk_prediction(r.db, data_hash,
                         IF raises THEN <<>> ELSE prediction, t2)],
                  database |-> get_database(dbs, db_path),
                  computed |-> TRUE, raised |-> raises,
                  result |-> IF raises THEN None ELSE Some(prediction)]
    IN  {Outcome(c) : c \in get_fire_risk_prediction(r.db, data_hash)}

\* lines 26-45: use_cache is true; t and t2 are the clock readings of the two
\* inserts, raises tells whether compute_raw raises when it is invoked
CachedBranch(files, dbs, wd, db_path, t, t2, raises) ==
    LET r == store_weather_data(OpenedFile(files, dbs, db_path), wd, t)
        data_hash == r.result
        prediction == compute_raw(wd)
        Outcome(cached_prediction) ==
            IF cached_prediction # None
            THEN [files |-> [files EXCEPT ![db_path] = r.db],
                  database |-> get_database(dbs, db_path),
                  computed |-> FALSE, raised |-> FALSE,
                  result |-> cached_prediction]
            ELSE IF raises
            THEN [files |-> [files EXCEPT ![db_path] = r.db],
                  database |-> get_database(dbs, db_path),
                  computed |-> TRUE, raised |-> TRUE, result |-> None]
            ELSE [files |-> [files EXCEPT ![db_path] =
                     store_fire_risk_prediction(r.db, data_hash, prediction, t2)],
                  database |-> get_database(dbs, db_path),
                  computed |-> TRUE, raised |-> FALSE,
                  result |-> Some(prediction)]
    IN  {Outcome(c) : c \in get_fire_risk_prediction(r.db, data_hash)}

\* compute_with_cache without the use_cache test of line 23
MutGatewayAlwaysCache(files, dbs, wd, use_cache, db_path, t, t2, raises) ==
    CachedBranch(files, dbs, wd, db_path, t, t2, raises)

\* compute_with_cache: the set of outcomes of one call
compute_with_cache(files, dbs, wd, use_cache, db_path, t, t2, raises) ==
    IF ~use_cache
    THEN UncachedBranch(files, dbs, wd, raises)
    ELSE CachedBranch(files, dbs, wd, db_path, t, t2, raises)

\* the cached branch with the failed cache call answered by compute_raw(wd)
MutCacheFaultFallback(files, dbs, wd, db_path, t, fault) ==
    LET file == OpenedFile(files, dbs, db_path)
        r == store_weather_data(file, wd, t)
    IN  [files |-> IF fault = "connect" THEN files
                   ELSE IF fault = "store_weather_data"
                   THEN [files EXCEPT ![db_path] = file]
                   ELSE [files EXCEPT ![db_path] = r.db],
         database |-> IF fault = "connect" THEN dbs
                      ELSE get_database(dbs, db_path),
         computed |-> TRUE, raised |-> FALSE,
         result |-> Some(compute_raw(wd))]

\* compute_with_cache, lines 26-45, when the cache call of the stage raises.
\* The stages are those at which sqlite3 can raise an error other than the
\* duplicate-key IntegrityError (file unreachable, disk or lock failure):
\* "connect" in get_database, the INSERT of "store_weather_data", the SELECT
\* of "get_fire_risk_prediction", the INSERT of "store_fire_risk_prediction".
\* no statement of the gateway catches it (Database catches IntegrityError
\* only, db.py:106), so the call ends there with the error; the rows
\* committed by the earlier stages stay, and compute_raw has run only when
\* the failing stage is the final insert
CacheFault(files, dbs, wd, db_path, t, fault) ==
    LET file == OpenedFile(files, dbs, db_path)
        r == store_weather_data(file, wd, t)
    IN  [files |-> IF fault = "connect" THEN files
                   ELSE IF fault = "store_weather_data"
                   THEN [files EXCEPT ![db_path] = file]
                   ELSE [files EXCEPT ![db_path] = r.db],
         database |-> IF fault = "connect" THEN dbs
                      ELSE get_database(dbs, db_path),
         computed |-> fault = "store_fire_risk_prediction",
         raised |-> TRUE,
         result |-> None]

(***************************************************************************)
(* The danger tier tracker and publisher (notification/models.py,          *)
(* notification/service.py).                                               *)
(***************************************************************************)
\* a ttf of m minutes as a fixed-point value
Minutes(m) == m * TtfScale

FireDangerLevel == {"LOW", "MODERATE", "HIGH", "VERY_HIGH"}

\* from_ttf with the boundary at 30 resolved upward
MutFromTtfBoundary(ttf) ==
    IF ttf > Minutes(60) THEN "LOW"
    ELSE IF ttf >= Minutes(30) THEN "MODERATE"
    ELSE IF ttf > Minutes(15) THEN "HIGH"
    ELSE "VERY_HIGH"

\* FireDangerLevel.from_ttf
from_ttf(ttf) ==
    IF ttf > Minutes(60) THEN "LOW"
    ELSE IF ttf > Minutes(30) THEN "MODERATE"
    ELSE IF ttf > Minutes(15) THEN "HIGH"
    ELSE "VERY_HIGH"

\* _publish_notification without the try/except of lines 87-100
MutPublishUncaught(cl, pubs, timestamp, danger_level, ttf, outcome) ==
    IF cl = None THEN [published |-> pubs, raised |-> FALSE]
    ELSE [published |-> Append(pubs, [timestamp |-> timestamp,
                                      danger_level |-> danger_level,
                                      ttf_minutes |-> ttf, outcome |-> outcome]),
          raised |-> outcome = "exception"]

\* NotificationService._publish_notification: the publish calls afterwards and
\* whether the method raises; outcome is what client.publish does ("ok",
\* "rc_error", "exception"), each of which is logged and swallowed
publish_notification(cl, pubs, timestamp, danger_level, ttf, outcome) ==
    IF cl = None THEN [published |-> pubs, raised |-> FALSE]
    ELSE [published |-> Append(pubs, [timestamp |-> timestamp,
                                      danger_level |-> danger_level,
                                      ttf_minutes |-> ttf, outcome |-> outcome]),
          raised |-> FALSE]

\* publish_fire_risk_change without the comparison with last_danger_level
MutNotifyAlways(en, cl, last, pubs, prediction, outcome) ==
    IF ~en \/ prediction = <<>>
    THEN [last_danger_level |-> last, published |-> pubs, raised |-> FALSE]
    ELSE LET latest_risk == prediction[Len(prediction)]
             p == publish_notification(cl, pubs, latest_risk.timestamp,
                      from_ttf(latest_risk.ttf), latest_risk.ttf, outcome)
         IN  [last_danger_level |-> Some(from_ttf(latest_risk.ttf)),
              published |-> p.published, raised |-> p.raised]

\* publish_fire_risk_change without the test of prediction.firerisks in line
\* 56: firerisks[-1] of an empty series raises IndexError
MutNotifyNoEmptyTest(en, cl, last, pubs, prediction, outcome) ==
    IF ~en
    THEN [last_danger_level |-> last, published |-> pubs, raised |-> FALSE]
    ELSE IF prediction = <<>>
    THEN [last_danger_level |-> last, published |-> pubs, raised |-> TRUE]
    ELSE LET latest_risk == prediction[Len(prediction)]
             current_danger_level == from_ttf(latest_risk.ttf)
             p == publish_notification(cl, pubs, latest_risk.timestamp,
                      current_danger_level, latest_risk.ttf, outcome)
         IN  IF last = None \/ Some(current_danger_level) # last
             THEN [last_danger_level |-> Some(current_danger_level),
                   published |-> p.published, raised |-> p.raised]
             ELSE [last_danger_level |-> last, published |-> pubs,
                   raised |-> FALSE]

\* publish_fire_risk_change without the test of config.enabled in line 56
MutNotifyIgnoresEnabled(en, cl, last, pubs, prediction, outcome) ==
    IF prediction = <<>>
    THEN [last_danger_level |-> last, published |-> pubs, raised |-> FALSE]
    ELSE LET latest_risk == prediction[Len(prediction)]
             current_danger_level == from_ttf(latest_risk.ttf)
             p == publish_notification(cl, pubs, latest_risk.timestamp,
                      current_danger_level, latest_risk.ttf, outcome)
         IN  IF last = None \/ Some(current_danger_level) # last
             THEN [last_danger_level |-> Some(current_danger_level),
                   published |-> p.published, raised |-> p.raised]
             ELSE [last_danger_level |-> last, published |-> pubs,
                   raised |-> FALSE]

\* publish_fire_risk_change that records the tier only after a successful
\* delivery
MutNotifyTracksDelivery(en, cl, last, pubs, prediction, outcome) ==
    IF ~en \/ prediction = <<>>
    THEN [last_danger_level |-> last, published |-> pubs, raised |-> FALSE]
    ELSE LET latest_risk == prediction[Len(prediction)]
             current_danger_level == from_ttf(latest_risk.ttf)
             p == publish_notification(cl, pubs, latest_risk.timestamp,
                      current_danger_level, latest_risk.ttf, outcome)
         IN  IF last = None \/ Some(current_danger_level) # last
             THEN [last_danger_level |-> IF outcome = "ok"
                                         THEN Some(current_danger_level)
                                         ELSE last,
                   published |-> p.published, raised |-> p.raised]
             ELSE [last_danger_level |-> last, published |-> pubs,
                   raised |-> FALSE]

\* publish_fire_risk_change that forgets the tier when the series is empty
MutNotifyResetsOnEmpty(en, cl, last, pubs, prediction, outcome) ==
    IF ~en
    THEN [last_danger_level |-> last, published |-> pubs, raised |-> FALSE]
    ELSE IF prediction = <<>>
    THEN [last_danger_level |-> None, published |-> pubs, raised |-> FALSE]
    ELSE LET latest_risk == prediction[Len(prediction)]
             current_danger_level == from_ttf(latest_risk.ttf)
             p == publish_notification(cl, pubs, latest_risk.timestamp,
                      current_danger_level, latest_risk.ttf, outcome)
         IN  IF last = None \/ Some(current_danger_level) # last
             THEN [last_danger_level |-> IF p.raised THEN last
                                         ELSE Some(current_danger_level),
                   published |-> p.published, raised |-> p.raised]
             ELSE [last_danger_level |-> last, published |-> pubs,
                   raised |-> FALSE]

\* NotificationService.publish_fire_risk_change: the tracker state and the
\* publish calls afterwards, and whether the call raised (the assignment of
\* line 66 is reached only when _publish_notification returns)
publish_fire_risk_change(en, cl, last, pubs, prediction, outcome) ==
    IF ~en \/ prediction = <<>>
    THEN [last_danger_level |-> last, published |-> pubs, raised |-> FALSE]
    ELSE LET latest_risk == prediction[Len(prediction)]
             current_danger_level == from_ttf(latest_risk.ttf)
             p == publish_notification(cl, pubs, latest_risk.timestamp,
                      current_danger_level, latest_risk.ttf, outcome)
         IN  IF last = None \/ Some(current_danger_level) # last
             THEN [last_danger_level |-> IF p.raised THEN last
                                         ELSE Some(current_danger_level),
                   published |-> p.published, raised |-> p.raised]
             ELSE [last_danger_level |-> last, published |-> pubs,
                   raised |-> FALSE]

(***************************************************************************)
(* Inputs of the stateful specifications.                                  *)
(***************************************************************************)
WdA == <<Pt(1, 10, 80, 5)>>
WdB == <<Pt(1, 10, 50, 5)>>
WdC == <<Pt(1, 10, 80, 5), Pt(2, 15, 80, 5)>>

\* contents handed to Database.store_weather_data (the empty set included:
\* the method has a branch for it)
StoreInputs == {WdA, <<>>}

\* risk series handed to Database.store_fire_risk_prediction
RiskInputs == {<<FireRisk(1, 45)>>, <<FireRisk(1, 20), FireRisk(2, 10)>>}

\* contents handed to the gateway (never empty: rejected upstream)
GatewayInputs == {WdA, WdC}

AllInputs == StoreInputs \cup GatewayInputs

DefaultPath == "frcm_cache.db"
DbPaths == {DefaultPath, "other.db"}

\* keys handed to the lookups and to store_fire_risk_prediction
Keys == {compute_hash(WdA), compute_hash(WdB)}

NoRet == [op |-> "none", seq |-> 0]

CacheInit ==
    /\ dbfiles = [p \in DbPaths |-> EmptyDb]
    /\ database = None
    /\ now = 0
    /\ ret = NoRet
    /\ computeCalls = 0
    /\ storedKey = [wd \in AllInputs |-> None]
    /\ lastRisk = [k \in Keys |-> None]
    /\ firstResult = [p \in DbPaths |-> [wd \in GatewayInputs |-> None]]

\* the wall clock advances between two readings (or does not: two readings
\* within one clock tick are equal)
Tick ==
    /\ now < MaxClock
    /\ now' = now + 1
    /\ UNCHANGED <<dbfiles, database, ret, computeCalls, storedKey, lastRisk,
                   firstResult>>
    /\ UNCHANGED nonCacheVars

\* every call is a new event: seq alternates from one call to the next
NextSeq == 1 - ret.seq

(***************************************************************************)
(* Calls on one Database instance opened on DefaultPath.                   *)
(***************************************************************************)
TheDb == dbfiles[DefaultPath]

StoreWeatherData(wd) ==
    LET r == store_weather_data(TheDb, wd, now)
    IN  /\ Len(r.db.weather_data) <= MaxRows
        /\ dbfiles' = [dbfiles EXCEPT ![DefaultPath] = r.db]
        /\ ret' = [op |-> "store_weather_data", seq |-> NextSeq, arg |-> wd,
                   result |-> r.result, raised |-> FALSE,
                   existed |-> HasWeatherRow(TheDb, compute_hash(wd))]
        /\ storedKey' = IF storedKey[wd] = None
                        THEN [storedKey EXCEPT ![wd] = Some(r.result)]
                        ELSE storedKey
        /\ UNCHANGED <<database, now, computeCalls, lastRisk, firstResult>>
        /\ UNCHANGED nonCacheVars

GetWeatherData(h) ==
    /\ ret' = [op |-> "get_weather_data", seq |-> NextSeq, arg |-> h,
               result |-> get_weather_data(TheDb, h), raised |-> FALSE]
    /\ dbfiles' = [dbfiles EXCEPT ![DefaultPath] = AfterSelect(@)]
    /\ UNCHANGED <<database, now, computeCalls, storedKey, lastRisk, firstResult>>
    /\ UNCHANGED nonCacheVars

StoreFireRiskPrediction(h, pred) ==
    /\ Len(TheDb.fire_risk_predictions) < MaxRows
    /\ dbfiles' = [dbfiles EXCEPT ![DefaultPath] =
                      store_fire_risk_prediction(TheDb, h, pred, now)]
    /\ ret' = [op |-> "store_fire_risk_prediction", seq |-> NextSeq, arg |-> h,
               result |-> None, raised |-> FALSE]
    /\ lastRisk' = [lastRisk EXCEPT ![h] = Some(pred)]
    /\ UNCHANGED <<database, now, computeCalls, storedKey, firstResult>>
    /\ UNCHANGED nonCacheVars

GetFireRiskPrediction(h) ==
    /\ \E r \in get_fire_risk_prediction(TheDb, h) :
          ret' = [op |-> "get_fire_risk_prediction", seq |-> NextSeq, arg |-> h,
                  result |-> r, raised |-> FALSE]
    /\ dbfiles' = [dbfiles EXCEPT ![DefaultPath] = AfterSelect(@)]
    /\ UNCHANGED <<database, now, computeCalls, storedKey, lastRisk, firstResult>>
    /\ UNCHANGED nonCacheVars

CacheCalls ==
    \/ \E wd \in StoreInputs : StoreWeatherData(wd)
    \/ \E h \in Keys : GetWeatherData(h)
    \/ \E h \in Keys, pred \in RiskInputs : StoreFireRiskPrediction(h, pred)
    \/ \E h \in Keys : GetFireRiskPrediction(h)

CacheNext ==
    \/ Tick
    \/ CacheCalls


(***************************************************************************)
(* Calls of the gateway.                                                   *)
(***************************************************************************)
ComputeWithCache(wd, use_cache, db_path, raises) ==
    \E t2 \in {t \in {now, now + 1} : t <= MaxClock} :
    \E o \in compute_with_cache(dbfiles, database, wd, use_cache, db_path,
                                now, t2, raises) :
        /\ o.computed => computeCalls < MaxCalls
        /\ \A p \in DbPaths :
              /\ Len(o.files[p].weather_data) <= MaxRows
              /\ Len(o.files[p].fire_risk_predictions) <= MaxRows
        /\ dbfiles' = o.files
        /\ database' = o.database
        /\ now' = IF o.files[db_path].fire_risk_predictions
                        # dbfiles[db_path].fire_risk_predictions
                  THEN t2 ELSE now
        /\ computeCalls' = IF o.computed THEN computeCalls + 1 ELSE computeCalls
        /\ ret' = [op |-> "compute_with_cache", seq |-> NextSeq, arg |-> wd,
                   use_cache |-> use_cache, db_path |-> db_path,
                   result |-> o.result, raised |-> o.raised,
                   computed |-> o.computed,
                   opened |-> use_cache /\ database # Some(db_path)]
        /\ storedKey' = IF use_cache /\ storedKey[wd] = None
                        THEN [storedKey EXCEPT ![wd] = Some(compute_hash(wd))]
                        ELSE storedKey
        /\ firstResult' = IF use_cache /\ ~o.raised
                             /\ firstResult[db_path][wd] = None
                          THEN [firstResult EXCEPT ![db_path][wd] = o.result]
                          ELSE firstResult
        /\ UNCHANGED lastRisk
        /\ UNCHANGED nonCacheVars

\* compute_with_cache(wd, db_path, use_cache=True) while the store fails at
\* one stage.  A failing connect is taken on the first open of a process; the
\* final insert is reached only on a miss.
ComputeWithCacheFault(wd, db_path, fault) ==
    LET o == CacheFault(dbfiles, database, wd, db_path, now, fault)
        stored == fault \in {"get_fire_risk_prediction",
                             "store_fire_risk_prediction"}
    IN  /\ fault = "connect" => database = None
        /\ fault = "store_fire_risk_prediction" =>
              get_fire_risk_prediction(o.files[db_path], compute_hash(wd))
                 = {None}
        /\ o.computed => computeCalls < MaxCalls
        /\ Len(o.files[db_path].weather_data) <= MaxRows
        /\ dbfiles' = o.files
        /\ database' = o.database
        /\ computeCalls' = IF o.computed THEN computeCalls + 1 ELSE computeCalls
        /\ ret' = [op |-> "compute_with_cache_fault", seq |-> NextSeq,
                   arg |-> wd, db_path |-> db_path, fault |-> fault,
                   result |-> o.result, raised |-> o.raised,
                   computed |-> o.computed]
        /\ storedKey' = IF stored /\ storedKey[wd] = None
                        THEN [storedKey EXCEPT ![wd] = Some(compute_hash(wd))]
                        ELSE storedKey
        /\ firstResult' = IF ~o.raised /\ firstResult[db_path][wd] = None
                          THEN [firstResult EXCEPT ![db_path][wd] = o.result]
                          ELSE firstResult
        /\ UNCHANGED <<now, lastRisk>>
        /\ UNCHANGED nonCacheVars

\* the process ends and the next one opens the store of the default path:
\* Database.close, the module-level _database is None again, then
\* Database(db_path) runs _initialize_db on the file
Reopen ==
    /\ dbfiles' = [dbfiles EXCEPT ![DefaultPath] = initialize_db(@)]
    /\ database' = None
    /\ ret' = [op |-> "reopen", seq |-> NextSeq]
    /\ UNCHANGED <<now, computeCalls, storedKey, lastRisk, firstResult>>
    /\ UNCHANGED nonCacheVars

GatewayNext ==
    \/ Tick
    \/ Reopen
    \/ \E wd \in GatewayInputs, use_cache \in BOOLEAN, db_path \in DbPaths,
          raises \in BOOLEAN : ComputeWithCache(wd, use_cache, db_path, raises)

(***************************************************************************)
(* Concurrent calls of store_weather_data, or of the gateway, with the     *)
(* content WdA on an empty cache.  The callers are threads of one process  *)
(* that share one Database instance (the _database singleton for the       *)
(* gateway), or processes that each have a connection of their own.  A     *)
(* connection is named after the thread that created it.                   *)
(***************************************************************************)
Callers == 1..NumCallers

Active == 1..mode.n

IdleCaller ==
    [pc |-> "off", conn |-> 0, t |-> 0, result |-> None, raised |-> "none",
     computed |-> 0]

ConcIdle ==
    /\ mode = [op |-> "none", threads |-> FALSE, n |-> 0]
    /\ callers = [c \in Callers |-> IdleCaller]
    /\ singleton = 0
    /\ writeLock = 0

\* store callers hold a Database already: their own one, or as threads the
\* one that the thread of caller 1 created; gateway callers start at
\* get_database
ConcInit ==
    /\ \E op \in {"store", "gateway"}, threads \in BOOLEAN, n \in 2..NumCallers :
          /\ op = "gateway" => n = 2
          /\ mode = [op |-> op, threads |-> threads, n |-> n]
    /\ callers = [c \in Callers |->
          IF c > mode.n THEN IdleCaller
          ELSE IF mode.op = "store"
          THEN [IdleCaller EXCEPT !.pc = "insert_weather",
                                  !.conn = IF mode.threads THEN 1 ELSE c]
          ELSE [IdleCaller EXCEPT !.pc = "get_database"]]
    /\ singleton = IF mode.op = "store" /\ mode.threads THEN 1 ELSE 0
    /\ writeLock = 0

\* the call of c ends by raising exception e
Raise(c, e) == [callers EXCEPT ![c].pc = "done", ![c].raised = e]

\* sqlite3.connect (line 26) leaves check_same_thread at its default: the
\* connection serves only the thread that created it
SameThread(c) == callers[c].conn = c

\* get_database, lines 193-198, statement by statement when the callers are
\* threads that race on the _database global
ConcGetDatabase(c) ==
    /\ callers[c].pc \in {"get_database", "new_database", "assign_database",
                          "return_database"}
    /\ IF ~mode.threads
       THEN /\ callers' = [callers EXCEPT ![c].pc = "insert_weather", ![c].conn = c]
            /\ UNCHANGED singleton
       ELSE IF callers[c].pc = "get_database"
       THEN \* line 194
            /\ callers' = [callers EXCEPT ![c].pc =
                              IF singleton = 0 THEN "new_database"
                              ELSE "return_database"]
            /\ UNCHANGED singleton
       ELSE IF callers[c].pc = "new_database"
       THEN \* lines 195-196: close() on the connection of another thread
            \* raises sqlite3.ProgrammingError
            /\ callers' = IF singleton # 0
                          THEN Raise(c, "ProgrammingError")
                          ELSE [callers EXCEPT ![c].pc = "assign_database"]
            /\ UNCHANGED singleton
       ELSE IF callers[c].pc = "assign_database"
       THEN \* line 197
            /\ callers' = [callers EXCEPT ![c].pc = "return_database"]
            /\ singleton' = c
       ELSE \* line 198
            /\ callers' = [callers EXCEPT ![c].pc = "insert_weather",
                                          ![c].conn = singleton]
            /\ UNCHANGED singleton
    /\ UNCHANGED <<mode, writeLock>>
    /\ UNCHANGED <<cacheVars, notifyVars, classifyVars, pollerVars, fp, auxVars>>

\* where a call goes on after store_weather_data has returned
AfterStore(c) ==
    IF mode.op = "store"
    THEN [callers EXCEPT ![c].pc = "done",
                         ![c].result = Some(compute_hash(WdA))]
    ELSE [callers EXCEPT ![c].pc = "select_risk"]

\* the INSERT of store_weather_data (lines 99-108) or of
\* store_fire_risk_prediction (lines 143-147).  It begins a transaction that
\* takes the write lock of the file.  While another connection holds the lock
\* inside a call the statement waits; when the holder has returned with its
\* transaction open the busy timeout ends the wait with "database is locked".
ConcInsert(c) ==
    /\ callers[c].pc \in {"insert_weather", "insert_risk"}
    /\ IF ~SameThread(c)
       THEN /\ callers' = Raise(c, "ProgrammingError")
            /\ UNCHANGED writeLock
       ELSE IF writeLock \notin {0, c}
       THEN /\ callers[writeLock].pc = "done"
            /\ callers' = Raise(c, "OperationalError")
            /\ UNCHANGED writeLock
       ELSE IF callers[c].pc = "insert_weather"
                /\ HasWeatherRow(TheDb, compute_hash(WdA))
       THEN \* sqlite3.IntegrityError, swallowed at lines 106-108 without
            \* commit or rollback: the transaction stays open
            /\ callers' = AfterStore(c)
            /\ writeLock' = c
       ELSE /\ callers' = [callers EXCEPT
                  ![c].pc = IF callers[c].pc = "insert_weather"
                            THEN "commit_weather" ELSE "commit_risk",
                  ![c].t = now]
            /\ writeLock' = c
    /\ UNCHANGED <<mode, singleton>>
    /\ UNCHANGED <<cacheVars, notifyVars, classifyVars, pollerVars, fp, auxVars>>

\* self.conn.commit(), line 105 or line 148: the pending row becomes visible
\* and the write lock is released
ConcCommit(c) ==
    /\ callers[c].pc \in {"commit_weather", "commit_risk"}
    /\ IF callers[c].pc = "commit_weather"
       THEN /\ dbfiles' = [dbfiles EXCEPT ![DefaultPath] =
                             store_weather_data(@, WdA, callers[c].t).db]
            /\ callers' = AfterStore(c)
       ELSE /\ dbfiles' = [dbfiles EXCEPT ![DefaultPath] =
                             store_fire_risk_prediction(@, compute_hash(WdA),
                                 compute_raw(WdA), callers[c].t)]
            /\ callers' = [callers EXCEPT ![c].pc = "done",
                                          ![c].result = Some(compute_raw(WdA))]
    /\ writeLock' = 0
    /\ UNCHANGED <<mode, singleton>>
    /\ UNCHANGED <<database, now, ret, computeCalls, storedKey, lastRisk,
                   firstResult>>
    /\ UNCHANGED <<notifyVars, classifyVars, pollerVars, fp, auxVars>>

\* get_fire_risk_prediction as called by the gateway, compute_cached.py
\* lines 32-35
ConcSelect(c) ==
    /\ callers[c].pc = "select_risk"
    /\ IF ~SameThread(c)
       THEN callers' = Raise(c, "ProgrammingError")
       ELSE \E r \in get_fire_risk_prediction(TheDb, compute_hash(WdA)) :
               callers' = IF r # None
                          THEN [callers EXCEPT ![c].pc = "done", ![c].result = r]
                          ELSE [callers EXCEPT ![c].pc = "compute"]
    /\ UNCHANGED <<mode, singleton, writeLock>>
    /\ UNCHANGED <<cacheVars, notifyVars, classifyVars, pollerVars, fp, auxVars>>

\* compute_raw(wd), compute_cached.py line 39
ConcCompute(c) ==
    /\ callers[c].pc = "compute"
    /\ callers' = [callers EXCEPT ![c].pc = "insert_risk",
                                  ![c].computed = @ + 1]
    /\ computeCalls' = computeCalls + 1
    /\ UNCHANGED <<mode, singleton, writeLock>>
    /\ UNCHANGED <<dbfiles, database, now, ret, storedKey, lastRisk, firstResult>>
    /\ UNCHANGED <<notifyVars, classifyVars, pollerVars, fp, auxVars>>

ConcNext ==
    \/ Tick
    \/ \E c \in Active : ConcGetDatabase(c)
    \/ \E c \in Active : ConcInsert(c)
    \/ \E c \in Active : ConcCommit(c)
    \/ \E c \in Active : ConcSelect(c)
    \/ \E c \in Active : ConcCompute(c)

(***************************************************************************)
(* _compute_hash applied to two observation sets a and b, before and after *)
(* they are stored.  a is any chronological set within the bounds; b is a  *)
(* itself or differs from a in one measurement of one point.               *)
(***************************************************************************)
FpIdle ==
    fp = [a |-> <<>>, b |-> <<>>, ka |-> None, ka2 |-> None, kb |-> None,
          sa |-> FALSE, sb |-> FALSE]

FpInit ==
    LET Chronological ==
            {wd \in AllWeatherData :
                \A i \in 1..(Len(wd) - 1) : wd[i].timestamp < wd[i + 1].timestamp}
        Perturbed(wd) ==
            UNION {
                {[wd EXCEPT ![i].timestamp = v] : v \in Timestamps \ {wd[i].timestamp}}
                \cup {[wd EXCEPT ![i].temperature = v] :
                         v \in Temperatures \ {wd[i].temperature}}
                \cup {[wd EXCEPT ![i].humidity = v] :
                         v \in Humidities \ {wd[i].humidity}}
                \cup {[wd EXCEPT ![i].wind_speed = v] :
                         v \in WindSpeeds \ {wd[i].wind_speed}}
                : i \in 1..Len(wd)}
    IN  \E a \in Chronological : \E b \in {a} \cup Perturbed(a) :
            fp = [a |-> a, b |-> b, ka |-> None, ka2 |-> None, kb |-> None,
                  sa |-> FALSE, sb |-> FALSE]

\* self._compute_hash(weather_data): twice at most for a, once for b
Fingerprint(which) ==
    /\ IF which = "a"
       THEN /\ fp.ka2 = None
            /\ fp' = IF fp.ka = None
                     THEN [fp EXCEPT !.ka = Some(compute_hash(fp.a))]
                     ELSE [fp EXCEPT !.ka2 = Some(compute_hash(fp.a))]
       ELSE /\ fp.kb = None
            /\ fp' = [fp EXCEPT !.kb = Some(compute_hash(fp.b))]
    /\ UNCHANGED <<cacheVars, notifyVars, classifyVars, pollerVars, concVars,
                   auxVars>>

\* store_weather_data of a or of b, once each
FpStore(which) ==
    /\ IF which = "a"
       THEN /\ ~fp.sa
            /\ dbfiles' = [dbfiles EXCEPT ![DefaultPath] =
                              store_weather_data(@, fp.a, now).db]
            /\ fp' = [fp EXCEPT !.sa = TRUE]
       ELSE /\ ~fp.sb
            /\ dbfiles' = [dbfiles EXCEPT ![DefaultPath] =
                              store_weather_data(@, fp.b, now).db]
            /\ fp' = [fp EXCEPT !.sb = TRUE]
    /\ UNCHANGED <<database, now, ret, computeCalls, storedKey, lastRisk,
                   firstResult>>
    /\ UNCHANGED <<notifyVars, classifyVars, pollerVars, concVars, auxVars>>

FpNext ==
    \/ \E which \in {"a", "b"} : Fingerprint(which)
    \/ \E which \in {"a", "b"} : FpStore(which)

(***************************************************************************)
(* Calls of publish_fire_risk_change on one NotificationService.           *)
(***************************************************************************)
\* ttf values of the points notified, in minutes: both sides of every boundary
TtfSamples == {Minutes(m) : m \in {10, 15, 20, 25, 30, 31, 60, 61}}

\* the series handed to publish_fire_risk_change
NotifySeries ==
    {<<>>}
    \cup {<<FireRisk(1, v)>> : v \in TtfSamples}
    \cup {<<FireRisk(1, w), FireRisk(2, v)>> :
            w \in {Minutes(10), Minutes(61)}, v \in TtfSamples}
    \cup {<<FireRisk(2, w), FireRisk(1, v)>> :
            w \in {Minutes(10), Minutes(61)}, v \in {Minutes(10), Minutes(61)}}

PublishOutcomes == {"ok", "rc_error", "exception"}

\* the service after __init__: the client exists iff the service is enabled
NotifyInit ==
    /\ enabled \in BOOLEAN
    /\ client = IF enabled THEN Some("connected") ELSE None
    /\ last_danger_level = None
    /\ published = <<>>
    /\ fed = <<>>
    /\ notifyRet = [seq |-> 0, n |-> 0, raised |-> FALSE, newest |-> 0]

NotifyIdle ==
    /\ enabled = FALSE
    /\ client = None
    /\ last_danger_level = None
    /\ published = <<>>
    /\ fed = <<>>
    /\ notifyRet = [seq |-> 0, n |-> 0, raised |-> FALSE, newest |-> 0]

PublishFireRiskChange(prediction, outcome) ==
    LET r == publish_fire_risk_change(enabled, client, last_danger_level,
                                      published, prediction, outcome)
        counted == enabled /\ prediction # <<>>
        \* the ttf of the point of the series with the greatest timestamp
        newest == IF prediction = <<>> THEN 0
                  ELSE LET i == CHOOSE i \in 1..Len(prediction) :
                                   \A j \in 1..Len(prediction) :
                                       prediction[j].timestamp <= prediction[i].timestamp
                       IN  prediction[i].ttf
    IN  /\ counted => Len(fed) < MaxNotify
        /\ last_danger_level' = r.last_danger_level
        /\ published' = r.published
        /\ fed' = IF counted
                  THEN Append(fed, prediction[Len(prediction)].ttf)
                  ELSE fed
        /\ notifyRet' = [seq |-> 1 - notifyRet.seq, n |-> Len(prediction),
                         raised |-> r.raised, newest |-> newest]
        /\ UNCHANGED <<enabled, client>>
        /\ UNCHANGED nonNotifyVars

NotifyNext ==
    \E prediction \in NotifySeries, outcome \in PublishOutcomes :
        PublishFireRiskChange(prediction, outcome)

\* NotificationService.disconnect on a connected client: loop_stop, then
\* client.disconnect
Disconnect ==
    /\ client = Some("connected")
    /\ client' = Some("disconnected")
    /\ UNCHANGED <<enabled, last_danger_level, published, fed, notifyRet>>
    /\ UNCHANGED nonNotifyVars

\* the caller of the service leaves between the constructor and disconnect:
\* an exception raised there (KeyboardInterrupt, a termination signal, any
\* error) skips line 44 of console_main, whose try statement has an except
\* clause for Exception and no finally clause; the service has no __del__,
\* context manager or exit hook that would call disconnect instead
CallerRaises ==
    /\ client = Some("connected")
    /\ client' = Some("abandoned")
    /\ UNCHANGED <<enabled, last_danger_level, published, fed, notifyRet>>
    /\ UNCHANGED nonNotifyVars

\* a constructor that restores the tier the previous instance recorded
MutConstructPersisted(connects) ==
    /\ enabled
    /\ client \in {Some("disconnected"), Some("abandoned"), Some("failed")}
    /\ Len(published) < MaxRuns
    /\ client' = IF connects THEN Some("connected") ELSE Some("failed")
    /\ fed' = <<>>
    /\ notifyRet' = [seq |-> 0, n |-> 0, raised |-> ~connects, newest |-> 0]
    /\ UNCHANGED <<enabled, published, last_danger_level>>
    /\ UNCHANGED nonNotifyVars

\* NotificationService(config) of the next run of console_main, after the
\* instance of the previous run is gone: a new object whose last_danger_level
\* is None (line 24) and whose client is connected by _setup_mqtt_client;
\* when the connection attempt raises, the constructor raises and the run has
\* no service ("failed").  published is what the broker has received so far.
Construct(connects) ==
    /\ enabled
    /\ client \in {Some("disconnected"), Some("abandoned"), Some("failed")}
    /\ Len(published) < MaxRuns
    /\ client' = IF connects THEN Some("connected") ELSE Some("failed")
    /\ last_danger_level' = None
    /\ fed' = <<>>
    /\ notifyRet' = [seq |-> 0, n |-> 0, raised |-> ~connects, newest |-> 0]
    /\ UNCHANGED <<enabled, published>>
    /\ UNCHANGED nonNotifyVars

\* a caller that constructs the service, notifies and then leaves, through
\* disconnect or through an exception
LifecycleNext ==
    \/ \E prediction \in NotifySeries, outcome \in PublishOutcomes :
          /\ client \in {None, Some("connected")}
          /\ PublishFireRiskChange(prediction, outcome)
    \/ Disconnect
    \/ CallerRaises

(***************************************************************************)
(* FireDangerLevel.from_ttf applied to one argument.                       *)
(***************************************************************************)
TtfDomain == 0..Minutes(MaxTtf)

ClassifyInit ==
    /\ ttfIn \in TtfDomain
    /\ tierOut = None

ClassifyIdle ==
    /\ ttfIn = 0
    /\ tierOut = None

Classify ==
    /\ tierOut = None
    /\ tierOut' = Some(from_ttf(ttfIn))
    /\ UNCHANGED ttfIn
    /\ UNCHANGED nonClassifyVars

(***************************************************************************)
(* The poller: ScheduledHarvester (scheduled_harvester.py).                *)
(***************************************************************************)
Locations == 1..NumLocations

\* the default of forecast_hours, the max_hours of _parse_met_response
forecast_hours == 48

\* the timeseries of the responses of api.met.no: entries with their time (in
\* hours) and the three measurements, each present or missing
Responses ==
    LET Entry(t, temp, hum, wind) ==
            [time |-> t, air_temperature |-> temp, relative_humidity |-> hum,
             wind_speed |-> wind]
        A(t) == Entry(t, Some(10), Some(80), Some(5))
        B(t) == Entry(t, Some(10), Some(50), Some(5))
        NoHumidity(t) == Entry(t, Some(10), None, Some(5))
        NoWind(t) == Entry(t, Some(10), Some(80), None)
    IN  {<<>>,
         <<NoHumidity(1)>>,
         <<NoWind(1), NoHumidity(2)>>,
         <<NoWind(1), A(1 + forecast_hours + 1)>>,
         <<A(1)>>,
         <<B(1)>>,
         <<NoWind(1), B(1)>>,
         <<A(1), NoHumidity(2)>>,
         <<B(1), A(1 + forecast_hours + 1), B(2)>>}

\* _parse_met_response without the test of lines 148-149
MutParseNoCheck(timeseries, max_hours) ==
    LET Complete(e) == /\ e.air_temperature # None
                       /\ e.relative_humidity # None
                       /\ e.wind_speed # None
        kept == SelectSeq(timeseries, Complete)
    IN  [raised |-> FALSE,
         data |-> [i \in 1..Len(kept) |->
                     Pt(kept[i].time, kept[i].air_temperature[1],
                        kept[i].relative_humidity[1], kept[i].wind_speed[1])]]

\* _parse_met_response whose loop ends at the first entry that misses a
\* measurement
MutParseStopsAtIncomplete(timeseries, max_hours) ==
    LET n == Len(timeseries)
        Bad(i) == \/ timeseries[i].time - timeseries[1].time > max_hours
                  \/ timeseries[i].air_temperature = None
                  \/ timeseries[i].relative_humidity = None
                  \/ timeseries[i].wind_speed = None
        kept == IF \E i \in 1..n : Bad(i)
                THEN SubSeq(timeseries, 1,
                            (CHOOSE i \in 1..n :
                                Bad(i) /\ \A j \in 1..(i - 1) : ~Bad(j)) - 1)
                ELSE timeseries
    IN  [raised |-> Len(kept) = 0,
         data |-> [i \in 1..Len(kept) |->
                     Pt(kept[i].time, kept[i].air_temperature[1],
                        kept[i].relative_humidity[1], kept[i].wind_speed[1])]]

\* WeatherHarvester._parse_met_response: the loop stops at the first entry
\* later than max_hours after the first one, keeps of the entries before it
\* those with all three measurements, and raises MetNoAPIError when none is
\* kept
parse_met_response(timeseries, max_hours) ==
    LET n == Len(timeseries)
        Beyond(i) == timeseries[i].time - timeseries[1].time > max_hours
        reached == IF \E i \in 1..n : Beyond(i)
                   THEN SubSeq(timeseries, 1,
                               (CHOOSE i \in 1..n :
                                   Beyond(i) /\ \A j \in 1..(i - 1) : ~Beyond(j))
                               - 1)
                   ELSE timeseries
        Complete(e) == /\ e.air_temperature # None
                       /\ e.relative_humidity # None
                       /\ e.wind_speed # None
        kept == SelectSeq(reached, Complete)
        weather_points ==
            [i \in 1..Len(kept) |->
                Pt(kept[i].time, kept[i].air_temperature[1],
                   kept[i].relative_humidity[1], kept[i].wind_speed[1])]
    IN  [raised |-> Len(kept) = 0, data |-> weather_points]

\* how one iteration of the for loop of fetch_and_process ends:
\*   "fetch_error"          fetch_weather_data raises MetNoAPIError
\*   "fetch_crash"          fetch_weather_data raises another Exception
\*   "weather_write_error"  weather_data.write_csv raises
\*   "compute_error"        compute raises
\*   "risk_write_error"     fire_risk.write_csv raises
\*   "ok"                   nothing raises
IterationKinds == {"fetch_error", "fetch_crash", "weather_write_error",
                   "compute_error", "risk_write_error", "ok"}

\* parsed is <<>> when no response was parsed for the location, else <<n>>,
\* n the number of points _parse_met_response kept
NotAttempted ==
    [outcome |-> "none", parsed |-> None, fetched |-> None, weather_csv |-> None,
     computed |-> FALSE, risk_csv |-> None]

\* one iteration that skips the computation and the risk file
MutIterationNoRisk(kind, wd) ==
    IF kind \in {"fetch_error", "fetch_crash"}
    THEN [NotAttempted EXCEPT !.outcome = kind]
    ELSE [outcome |-> kind, parsed |-> Some(Len(wd)), fetched |-> Some(wd),
          weather_csv |-> Some(wd),
          computed |-> FALSE, risk_csv |-> None]

\* one iteration of the for loop (lines 91-127): what it fetched, which
\* files it wrote and whether it called compute, by the way it ends
Iteration(kind, wd) ==
    IF kind \in {"fetch_error", "fetch_crash"}
    THEN [NotAttempted EXCEPT !.outcome = kind]
    ELSE IF kind = "weather_write_error"
    THEN [outcome |-> kind, parsed |-> Some(Len(wd)), fetched |-> Some(wd),
          weather_csv |-> None,
          computed |-> FALSE, risk_csv |-> None]
    ELSE IF kind = "compute_error"
    THEN [outcome |-> kind, parsed |-> Some(Len(wd)), fetched |-> Some(wd),
          weather_csv |-> Some(wd),
          computed |-> TRUE, risk_csv |-> None]
    ELSE IF kind = "risk_write_error"
    THEN [outcome |-> kind, parsed |-> Some(Len(wd)), fetched |-> Some(wd),
          weather_csv |-> Some(wd),
          computed |-> TRUE, risk_csv |-> None]
    ELSE [outcome |-> kind, parsed |-> Some(Len(wd)), fetched |-> Some(wd),
          weather_csv |-> Some(wd),
          computed |-> TRUE, risk_csv |-> Some(compute_raw(wd))]

\* the for loop with the try around it instead of inside it: an error ends
\* the loop
MutNextIndexAbort(kind, i) == IF kind = "ok" THEN i + 1 ELSE NumLocations + 1

\* the for loop trying a location again at once when its fetch failed
MutNextIndexRepeat(kind, i) ==
    IF kind \in {"fetch_error", "fetch_crash"} THEN i ELSE i + 1

\* the index the for loop goes on with after an iteration: both except
\* clauses are inside the loop, so it goes on with the next location
NextIndex(kind, i) == i + 1

\* an except clause that takes the failed location out of the configuration
MutDropFailed(mon, l, kind) ==
    IF kind \in {"fetch_error", "fetch_crash"} THEN mon \ {l} ELSE mon

\* self.config.locations after the iteration of location l: the loop body and
\* its except clauses (lines 124-127) only log, the list is never modified
LocationsAfter(mon, l, kind) == mon

\* the first location at or after position i that the for loop visits
NextMonitored(mon, i) ==
    IF \E l \in mon : l >= i
    THEN CHOOSE l \in mon : l >= i /\ \A k \in mon : k >= i => l <= k
    ELSE NumLocations + 1

\* run() with "while True"
MutLoopForever(r) == TRUE

\* the loop condition of run(), line 143
LoopContinues(r) == r

\* run() that sleeps after every cycle
MutSleepAlways(r) == TRUE

\* the test of line 147: sleep after the cycle only while running
SleepsAfterCycle(r) == r

\* run() whose except clause re-raises: run() ends
MutHandlerReturns(r) == "returned"

\* the except clause of run(), lines 151-155: where run() goes on
AfterHandler(r) == IF r THEN "retry_sleep" ELSE "top"

\* stop() that leaves self.running as it is
MutStopNoop(r) == r

\* stop(), line 161: the value of self.running after it
stop(r) == FALSE

\* run() that returns at once when stop() was invoked before it
MutRunHonoursEarlyStop(r, stopped) == ~stopped

\* run(), line 137: self.running after the assignment, whatever its value
\* was and whether or not stop() was invoked before run()
run_entry(r, stopped) == TRUE

\* __init__ that starts the poller RUNNING
MutInitialRunning == TRUE

\* __init__, line 55
InitialRunning == FALSE

\* the default of update_interval, in seconds
update_interval == 60

NoStop == [pc |-> "none", idx |-> 0]

PollerInit ==
    /\ running = InitialRunning
    /\ pc = "idle"
    /\ idx = 1
    /\ loc = [l \in Locations |-> NotAttempted]
    /\ cycles = 0
    /\ fetchCalls = 0
    /\ stopInSleep = FALSE
    /\ stopAt = NoStop
    /\ lostStop = FALSE
    /\ failures = 0
    /\ sleepArg = None
    /\ monitored = Locations
    /\ prevFailed = {}

\* run(), line 137
RunEnter ==
    /\ pc \in {"idle", "returned"}
    /\ running' = run_entry(running, lostStop)
    /\ pc' = "top"
    /\ stopInSleep' = FALSE
    /\ stopAt' = NoStop
    /\ failures' = 0
    /\ UNCHANGED <<idx, loc, cycles, fetchCalls, sleepArg, monitored, prevFailed,
                   lostStop>>
    /\ UNCHANGED nonPollerVars

\* the while test, line 143: start a cycle or leave run()
LoopTop ==
    /\ pc = "top"
    /\ IF LoopContinues(running)
       THEN /\ cycles < MaxCycles
            /\ pc' = "begin"
            /\ idx' = NextMonitored(monitored, 1)
            /\ loc' = [l \in Locations |-> NotAttempted]
            /\ cycles' = cycles + 1
            /\ prevFailed' = {l \in Locations :
                                 loc[l].outcome \in {"fetch_error", "fetch_crash"}}
       ELSE /\ pc' = "returned"
            /\ UNCHANGED <<idx, loc, cycles, prevFailed>>
    /\ UNCHANGED <<running, fetchCalls, stopInSleep, stopAt, failures, sleepArg,
                   monitored, lostStop>>
    /\ UNCHANGED nonPollerVars

\* fetch_and_process up to its for loop, lines 87-90: it goes on to the first
\* location, or an exception escapes it to the except clause of run()
CycleBegin(raises) ==
    /\ pc = "begin"
    /\ pc' = IF raises THEN "handler" ELSE "cycle"
    /\ failures' = IF raises THEN failures + 1 ELSE failures
    /\ UNCHANGED <<running, idx, loc, cycles, fetchCalls, stopInSleep, stopAt,
                   sleepArg, monitored, prevFailed, lostStop>>
    /\ UNCHANGED nonPollerVars

\* one iteration of the for loop of fetch_and_process.  fetch_weather_data
\* either fails before it has a response (kind "fetch_error" or
\* "fetch_crash") or parses the timeseries of the response; when
\* _parse_met_response raises, the iteration ends as "fetch_error".
ProcessLocation(kind, timeseries) ==
    LET p == parse_met_response(timeseries, forecast_hours)
    IN  /\ pc = "cycle"
        /\ idx \in Locations
        /\ p.raised => kind = "fetch_error"
        /\ loc' = [loc EXCEPT ![idx] =
                      IF kind \in {"fetch_error", "fetch_crash"} /\ ~p.raised
                      THEN Iteration(kind, p.data)
                      ELSE [Iteration(kind, p.data) EXCEPT
                               !.parsed = Some(Len(p.data))]]
        /\ fetchCalls' = fetchCalls + 1
        /\ monitored' = LocationsAfter(monitored, idx, kind)
        /\ idx' = NextMonitored(monitored', NextIndex(kind, idx))
        /\ pc' = IF idx' > NumLocations THEN "after" ELSE "cycle"
        /\ failures' = IF idx' > NumLocations THEN 0 ELSE failures
        /\ prevFailed' = {l \in prevFailed : l >= idx}
        /\ UNCHANGED <<running, cycles, stopInSleep, stopAt, sleepArg, lostStop>>
        /\ UNCHANGED nonPollerVars

\* fetch_and_process has returned; the test of line 147
AfterCycle ==
    /\ pc = "after"
    /\ pc' = IF SleepsAfterCycle(running) THEN "sleep" ELSE "top"
    /\ sleepArg' = IF SleepsAfterCycle(running)
                   THEN Some(update_interval) ELSE sleepArg
    /\ prevFailed' = {}
    /\ lostStop' = FALSE
    /\ UNCHANGED <<running, idx, loc, cycles, fetchCalls, stopInSleep, stopAt,
                   failures, monitored>>
    /\ UNCHANGED nonPollerVars

\* the except clause of run(), lines 151-155
Handler ==
    /\ pc = "handler"
    /\ pc' = AfterHandler(running)
    /\ sleepArg' = IF pc' = "retry_sleep" THEN Some(update_interval) ELSE sleepArg
    /\ lostStop' = FALSE
    /\ UNCHANGED <<running, idx, loc, cycles, fetchCalls, stopInSleep, stopAt,
                   failures, monitored, prevFailed>>
    /\ UNCHANGED nonPollerVars

\* time.sleep returns, line 149 or line 155
SleepReturn ==
    /\ pc \in {"sleep", "retry_sleep"}
    /\ pc' = "top"
    /\ UNCHANGED <<running, idx, loc, cycles, fetchCalls, stopInSleep, stopAt,
                   failures, sleepArg, monitored, prevFailed, lostStop>>
    /\ UNCHANGED nonPollerVars

\* stop(), from a caller or from _signal_handler, at any moment
Stop ==
    /\ running' = stop(running)
    /\ stopInSleep' = (stopInSleep \/ pc = "sleep")
    /\ stopAt' = IF stopAt = NoStop THEN [pc |-> pc, idx |-> idx] ELSE stopAt
    /\ lostStop' = (pc = "idle")
    /\ UNCHANGED <<pc, idx, loc, cycles, fetchCalls, failures, sleepArg,
                   monitored, prevFailed>>
    /\ UNCHANGED nonPollerVars

RunSteps ==
    \/ LoopTop
    \/ \E raises \in BOOLEAN : CycleBegin(raises)
    \/ \E kind \in IterationKinds, timeseries \in Responses :
          ProcessLocation(kind, timeseries)
    \/ AfterCycle
    \/ Handler
    \/ SleepReturn

PollerNext ==
    \/ RunEnter
    \/ LoopTop
    \/ \E raises \in BOOLEAN : CycleBegin(raises)
    \/ \E kind \in IterationKinds, timeseries \in Responses :
          ProcessLocation(kind, timeseries)
    \/ AfterCycle
    \/ Handler
    \/ SleepReturn
    \/ Stop

(***************************************************************************)
(* _parse_met_response applied to one timeseries, and the Database         *)
(* instances handed out by get_database.                                   *)
(***************************************************************************)
\* the timeseries parsed: chronological entries, up to MaxEntries of them, at
\* the hours 1, 2 and one past the horizon, each measurement present or not
Timeseries ==
    LET Times == {1, 2, 1 + forecast_hours + 1}
        Entries == [time : Times, air_temperature : {None, Some(10)},
                    relative_humidity : {None, Some(80)},
                    wind_speed : {None, Some(5)}]
    IN  {ts \in SeqsUpTo(Entries, MaxEntries) :
            \A i \in 1..(Len(ts) - 1) : ts[i].time < ts[i + 1].time}

\* no call of _parse_met_response and no get_database call yet
AuxIdle ==
    /\ parseCall = [timeseries |-> <<>>, result |-> None]
    /\ acc = [instances |-> <<>>, current |-> 0, ret |-> [op |-> "none", seq |-> 0]]

\* get_database that does not close the instance it replaces
MutGetDatabaseNoClose(db_path, fails) ==
    LET cur == acc.current
        same == cur # 0 /\ acc.instances[cur].db_path = db_path
        n == Len(acc.instances)
        Ret(result, raised) ==
            [op |-> "get_database", seq |-> 1 - acc.ret.seq, db_path |-> db_path,
             result |-> result, raised |-> raised]
    IN  /\ same => ~fails
        /\ (~same /\ ~fails) => n < MaxInstances
        /\ acc' = IF same THEN [acc EXCEPT !.ret = Ret(cur, FALSE)]
                  ELSE IF fails
                  THEN [acc EXCEPT !.ret = Ret(0, TRUE)]
                  ELSE [instances |-> Append(acc.instances,
                                             [db_path |-> db_path, open |-> TRUE]),
                        current |-> n + 1,
                        ret |-> Ret(n + 1, FALSE)]
        /\ UNCHANGED <<cacheVars, notifyVars, classifyVars, pollerVars, concVars,
                       fp, parseCall>>

\* get_database(db_path), lines 184-198.  acc.instances are the Database
\* objects created so far (their path and whether conn is a connection or
\* None), acc.current is the index of the one _database refers to (0: None).
\* fails tells whether Database(db_path) raises when it is invoked
\* (sqlite3.connect on an unreachable file): the previous instance has been
\* closed by then and _database still refers to it.
GetDatabase(db_path, fails) ==
    LET cur == acc.current
        same == cur # 0 /\ acc.instances[cur].db_path = db_path
        n == Len(acc.instances)
        closed == IF cur = 0 THEN acc.instances
                  ELSE [acc.instances EXCEPT ![cur].open = FALSE]
        Ret(result, raised) ==
            [op |-> "get_database", seq |-> 1 - acc.ret.seq, db_path |-> db_path,
             result |-> result, raised |-> raised]
    IN  /\ same => ~fails
        /\ (~same /\ ~fails) => n < MaxInstances
        /\ acc' = IF same THEN [acc EXCEPT !.ret = Ret(cur, FALSE)]
                  ELSE IF fails
                  THEN [instances |-> closed, current |-> cur,
                        ret |-> Ret(0, TRUE)]
                  ELSE [instances |-> Append(closed,
                                             [db_path |-> db_path, open |-> TRUE]),
                        current |-> n + 1,
                        ret |-> Ret(n + 1, FALSE)]
        /\ UNCHANGED <<cacheVars, notifyVars, classifyVars, pollerVars, concVars,
                       fp, parseCall>>

\* a holder of instance i calls one of its methods: each starts with
\* self.conn.cursor(), which raises AttributeError when conn is None
UseInstance(i) ==
    /\ i \in 1..Len(acc.instances)
    /\ acc' = [acc EXCEPT !.ret =
                  [op |-> "use", seq |-> 1 - acc.ret.seq,
                   db_path |-> acc.instances[i].db_path,
                   result |-> i, raised |-> ~acc.instances[i].open]]
    /\ UNCHANGED <<cacheVars, notifyVars, classifyVars, pollerVars, concVars,
                   fp, parseCall>>

\* a holder of instance i calls its close(), lines 173-177: conn becomes None
\* (a second close finds conn None and does nothing); _database is not reset
CloseInstance(i) ==
    /\ i \in 1..Len(acc.instances)
    /\ acc' = [acc EXCEPT !.instances[i].open = FALSE,
                          !.ret = [op |-> "close", seq |-> 1 - acc.ret.seq,
                                   db_path |-> acc.instances[i].db_path,
                                   result |-> i, raised |-> FALSE]]
    /\ UNCHANGED <<cacheVars, notifyVars, classifyVars, pollerVars, concVars,
                   fp, parseCall>>

\* harvester._parse_met_response(data, max_hours=forecast_hours)
Parse(timeseries) ==
    /\ parseCall' = [timeseries |-> timeseries,
                     result |-> Some(parse_met_response(timeseries,
                                                        forecast_hours))]
    /\ UNCHANGED <<cacheVars, notifyVars, classifyVars, pollerVars, concVars, fp,
                   acc>>

(***************************************************************************)
(* Specifications.                                                         *)
(***************************************************************************)
InitCache ==
    CacheInit /\ NotifyIdle /\ ClassifyIdle /\ PollerInit /\ ConcIdle /\ FpIdle /\ AuxIdle
InitGateway ==
    CacheInit /\ NotifyIdle /\ ClassifyIdle /\ PollerInit /\ ConcIdle /\ FpIdle /\ AuxIdle
InitNotify ==
    CacheInit /\ NotifyInit /\ ClassifyIdle /\ PollerInit /\ ConcIdle /\ FpIdle /\ AuxIdle
InitClassify ==
    CacheInit /\ NotifyIdle /\ ClassifyInit /\ PollerInit /\ ConcIdle /\ FpIdle /\ AuxIdle
InitPoller ==
    CacheInit /\ NotifyIdle /\ ClassifyIdle /\ PollerInit /\ ConcIdle /\ FpIdle /\ AuxIdle
InitConcurrent ==
    CacheInit /\ NotifyIdle /\ ClassifyIdle /\ PollerInit /\ ConcInit /\ FpIdle /\ AuxIdle
InitFingerprint ==
    CacheInit /\ NotifyIdle /\ ClassifyIdle /\ PollerInit /\ ConcIdle /\ FpInit /\ AuxIdle

\* the Database API exercised directly, as tests/test_database.py does
SpecCache ==
    /\ InitCache
    /\ [][CacheNext]_vars

\* calls of the Database API and gateway calls on the same file
CacheAllNext ==
    \/ CacheCalls
    \/ \E use_cache \in BOOLEAN, raises \in BOOLEAN :
          ComputeWithCache(WdA, use_cache, DefaultPath, raises)

SpecCacheAll ==
    /\ InitCache
    /\ [][CacheAllNext]_vars

\* cached gateway calls on a store that fails at times
GatewayFaultNext ==
    \/ Reopen
    \/ \E wd \in GatewayInputs :
          ComputeWithCache(wd, TRUE, DefaultPath, FALSE)
    \/ \E wd \in GatewayInputs,
          fault \in {"connect", "store_weather_data",
                     "get_fire_risk_prediction", "store_fire_risk_prediction"} :
          ComputeWithCacheFault(wd, DefaultPath, fault)

SpecGatewayFault ==
    /\ InitGateway
    /\ [][GatewayFaultNext]_vars

\* the gateway called repeatedly, as tests/test_compute_cached.py does
SpecGateway ==
    /\ InitGateway
    /\ [][GatewayNext]_vars

\* notify calls on one service
SpecNotify ==
    /\ InitNotify
    /\ [][NotifyNext]_vars

\* the life of one service in its caller; the caller leaves eventually
SpecLifecycle ==
    /\ InitNotify
    /\ [][LifecycleNext]_vars
    /\ WF_vars(Disconnect \/ CallerRaises)

\* successive runs of console_main, each with a service of its own: the
\* series of a run is empty or has one point, HIGH or LOW
SpecRuns ==
    /\ InitNotify
    /\ [][\/ \E connects \in BOOLEAN : Construct(connects)
          \/ \E prediction \in {<<>>, <<FireRisk(1, Minutes(20))>>,
                                  <<FireRisk(1, Minutes(61))>>},
                outcome \in PublishOutcomes :
                /\ client \in {None, Some("connected")}
                /\ PublishFireRiskChange(prediction, outcome)
          \/ Disconnect
          \/ CallerRaises]_vars

\* the module-level accessor of db.py and the holders of its instances
SpecAccessor ==
    /\ InitCache
    /\ [][\/ \E db_path \in DbPaths, fails \in BOOLEAN : GetDatabase(db_path, fails)
          \/ \E i \in 1..MaxInstances : UseInstance(i)
          \/ \E i \in 1..MaxInstances : CloseInstance(i)]_vars

\* _parse_met_response on every timeseries of its domain
SpecParse ==
    /\ InitCache
    /\ [][\E timeseries \in Timeseries : Parse(timeseries)]_vars

\* from_ttf on every argument of its domain
SpecClassify ==
    /\ InitClassify
    /\ [][Classify]_vars

\* _compute_hash and store_weather_data on two observation sets, in any order
SpecFingerprint ==
    /\ InitFingerprint
    /\ [][FpNext]_vars

\* concurrent callers of the cache, every interleaving of their statements
SpecConcurrent ==
    /\ InitConcurrent
    /\ [][ConcNext]_vars

\* the poller with stop() arriving at any moment
SpecPoller ==
    /\ InitPoller
    /\ [][PollerNext]_vars

\* the poller when every fetch, computation and sleep terminates
FairSpecPoller ==
    /\ SpecPoller
    /\ WF_vars(RunSteps)

(***************************************************************************)
(* Properties of the cache and the gateway.                                *)
(***************************************************************************)
\* a step that is a call of the gateway
GatewayCall == ret'.seq # ret.seq /\ ret'.op = "compute_with_cache"

RiskTable(p) == dbfiles[p].fire_risk_predictions

\* C1: a gateway call with use_cache = true on a key without a risk row invokes
\* compute_raw exactly once and, when it returns, has appended one risk row
\* holding the result it returns; every later cached call with equal content on
\* that cache invokes compute_raw zero times, appends no risk row and returns
\* a series equal to the one the first call returned.
C1_GatewayCacheCorrect ==
    [][(GatewayCall /\ ret'.use_cache) =>
        LET wd == ret'.arg
            p == ret'.db_path
            k == compute_hash(wd)
        IN  /\ RiskRowsOf(dbfiles[p], k) = {} =>
                /\ computeCalls' = computeCalls + 1
                /\ ~ret'.raised =>
                    /\ ret'.result = Some(compute_raw(wd))
                    /\ Len(dbfiles'[p].fire_risk_predictions) = Len(RiskTable(p)) + 1
                    /\ RiskRowsOf(dbfiles'[p], k) = {Len(dbfiles'[p].fire_risk_predictions)}
                    /\ Some(model_validate_json(
                          dbfiles'[p].fire_risk_predictions[Len(dbfiles'[p].fire_risk_predictions)].prediction_json))
                       = ret'.result
            /\ firstResult[p][wd] # None =>
                /\ computeCalls' = computeCalls
                /\ dbfiles'[p].fire_risk_predictions = RiskTable(p)
                /\ ~ret'.raised
                /\ ret'.result = firstResult[p][wd]
    ]_vars

\* C1 witness: a cached call was served from the cache after the first call
\* had computed and stored the series
C1_Witness ==
    /\ ret.op = "compute_with_cache"
    /\ ret.use_cache /\ ~ret.computed /\ ~ret.raised
    /\ computeCalls = 1
    /\ ret.result = firstResult[ret.db_path][ret.arg]
    /\ ret.result = Some(compute_raw(ret.arg))

WeatherRowsOf(db, h) ==
    {i \in 1..Len(db.weather_data) : db.weather_data[i].data_hash = h}

\* C2: storing content that is already stored raises nothing, returns the key
\* returned before and leaves the tables as they were; there is exactly one
\* observation row per distinct content ever stored.
C2_StoreIdempotent ==
    /\ [](\A wd \in AllInputs : storedKey[wd] # None =>
            Cardinality(WeatherRowsOf(TheDb, storedKey[wd][1])) = 1)
    /\ [](Len(TheDb.weather_data)
            = Cardinality({wd \in AllInputs : storedKey[wd] # None}))
    /\ [][(ret'.seq # ret.seq /\ ret'.op = "store_weather_data"
           /\ storedKey[ret'.arg] # None) =>
            /\ dbfiles' = dbfiles
            /\ ~ret'.raised
            /\ ret'.result = storedKey[ret'.arg][1]
       ]_vars

\* C2 witness: a store of content whose row already existed, next to the row
\* of another content
C2_Witness ==
    /\ ret.op = "store_weather_data"
    /\ ret.existed
    /\ Len(TheDb.weather_data) = 2
    /\ Cardinality(WeatherRowsOf(TheDb, ret.result)) = 1

\* C7: get_fire_risk_prediction returns the series written by the most recent
\* store_fire_risk_prediction for the key.
C7_GetRiskNewest ==
    (ret.op = "get_fire_risk_prediction" /\ lastRisk[ret.arg] # None)
        => ret.result = lastRisk[ret.arg]

AllDone == \A c \in Active : callers[c].pc = "done"

\* C15: after two or more concurrent store_weather_data calls with the same
\* content on an empty cache there is exactly one observation row, and every
\* caller has returned the same key without an error.
C15_ConcurrentStoreConverges ==
    (mode.op = "store" /\ AllDone) =>
        /\ Len(TheDb.weather_data) = 1
        /\ \A c \in Active :
              /\ callers[c].raised = "none"
              /\ callers[c].result = Some(compute_hash(WdA))

\* C16: after two concurrent gateway calls with the same content on an
\* uncached key each caller has called compute_raw at most once, one or two
\* risk rows exist, both callers have returned the same series, and
\* get_fire_risk_prediction returns that series.
C16_ConcurrentMissConsistent ==
    (mode.op = "gateway" /\ mode.n = 2 /\ AllDone) =>
        /\ \A c \in Active :
              /\ callers[c].raised = "none"
              /\ callers[c].computed <= 1
              /\ callers[c].result = Some(compute_raw(WdA))
        /\ Cardinality(RiskRowsOf(TheDb, compute_hash(WdA))) \in {1, 2}
        /\ get_fire_risk_prediction(TheDb, compute_hash(WdA))
              = {Some(compute_raw(WdA))}

C18_GetRiskIffStored ==
    /\ ret.op = "get_fire_risk_prediction" =>
          /\ ~ret.raised
          /\ (ret.result # None) <=> (lastRisk[ret.arg] # None)
    /\ ret.op = "get_weather_data" =>
          /\ ~ret.raised
          /\ (\A wd \in AllInputs : storedKey[wd] # Some(ret.arg))
                => ret.result = None

\* C18 witness: a lookup returned a series for a key with two risk rows while
\* the other key had never been written
C18_Witness ==
    /\ ret.op = "get_fire_risk_prediction"
    /\ ret.result # None
    /\ Cardinality(RiskRowsOf(TheDb, ret.arg)) = 2
    /\ \E k \in Keys : lastRisk[k] = None

IsPrefix(s, t) == Len(s) <= Len(t) /\ SubSeq(t, 1, Len(s)) = s

\* C19: no call of the Database API or of the gateway modifies or deletes a
\* row: each table after a step begins with the table before it; and every
\* store_fire_risk_prediction call appends exactly one row for its key, also
\* when the key has risk rows already.
C19_AppendOnly ==
    /\ [][\A p \in DbPaths :
            /\ IsPrefix(dbfiles[p].weather_data, dbfiles'[p].weather_data)
            /\ IsPrefix(dbfiles[p].fire_risk_predictions,
                        dbfiles'[p].fire_risk_predictions)]_vars
    /\ [][(ret'.seq # ret.seq /\ ret'.op = "store_fire_risk_prediction") =>
            /\ ~ret'.raised
            /\ Len(dbfiles'[DefaultPath].fire_risk_predictions)
                  = Len(TheDb.fire_risk_predictions) + 1
            /\ dbfiles'[DefaultPath].fire_risk_predictions[
                  Len(dbfiles'[DefaultPath].fire_risk_predictions)].weather_data_hash
                  = ret'.arg]_vars

\* C19 witness: a store_fire_risk_prediction call for a key whose series the
\* gateway had stored before has added a second row for the key
C19_Witness ==
    /\ ret.op = "store_fire_risk_prediction"
    /\ ret.arg = compute_hash(WdA)
    /\ Cardinality(RiskRowsOf(TheDb, ret.arg)) = 2
    /\ firstResult[DefaultPath][WdA] # None

\* C20: get_weather_data and get_fire_risk_prediction leave the observation
\* rows and the risk rows as they are, for a key that is present and for one
\* that is absent.
C20_LookupsReadOnly ==
    [][(ret'.seq # ret.seq
        /\ ret'.op \in {"get_weather_data", "get_fire_risk_prediction"})
          => dbfiles' = dbfiles]_vars

\* C20 witness: a lookup found the observation set of its key while the
\* tables held two observation rows and a risk row
C20_Witness ==
    /\ ret.op = "get_weather_data"
    /\ ret.result # None
    /\ Len(TheDb.weather_data) = 2
    /\ Len(TheDb.fire_risk_predictions) >= 1

(***************************************************************************)
(* Properties of the tracker and publisher.                                *)
(***************************************************************************)
\* a step that is a notify call with a non-empty series on an enabled service
NotifyCounted == Len(fed') = Len(fed) + 1

\* C3: a notify call with a non-empty series on an enabled publisher issues a
\* publish if and only if last_danger_level is unset or differs from the tier
\* of the last point, and then sets last_danger_level to that tier; two
\* consecutive publishes never carry the same tier; the ttf sequence
\* [20, 10] gives two publishes and [20, 25] gives exactly one.
C3_Debounce ==
    /\ [][NotifyCounted =>
            LET tier == from_ttf(fed'[Len(fed')])
                changed == last_danger_level = None
                           \/ last_danger_level # Some(tier)
            IN  /\ changed <=> Len(published') = Len(published) + 1
                /\ changed =>
                    /\ last_danger_level' = Some(tier)
                    /\ published'[Len(published')].danger_level = tier
                    /\ SubSeq(published', 1, Len(published)) = published
                /\ ~changed => UNCHANGED <<last_danger_level, published>>
       ]_vars
    /\ [](\A i \in 1..(Len(published) - 1) :
            published[i].danger_level # published[i + 1].danger_level)
    /\ [](fed = <<Minutes(20), Minutes(10)>> => Len(published) = 2)
    /\ [](fed = <<Minutes(20), Minutes(25)>> => Len(published) = 1)

\* C3 witness: HIGH was published once and the second HIGH series was debounced
C3_Witness ==
    /\ fed = <<Minutes(20), Minutes(25)>>
    /\ Len(published) = 1
    /\ last_danger_level = Some("HIGH")

\* C10: from_ttf returns LOW iff ttf > 60, MODERATE iff 30 < ttf <= 60, HIGH
\* iff 15 < ttf <= 30 and VERY_HIGH iff ttf <= 15, one tier for each ttf, the
\* boundary values resolving downward.
C10_FromTtf ==
    tierOut # None =>
        LET t == tierOut[1]
        IN  /\ t \in FireDangerLevel
            /\ (t = "LOW") <=> (ttfIn > Minutes(60))
            /\ (t = "MODERATE") <=> (Minutes(30) < ttfIn /\ ttfIn <= Minutes(60))
            /\ (t = "HIGH") <=> (Minutes(15) < ttfIn /\ ttfIn <= Minutes(30))
            /\ (t = "VERY_HIGH") <=> (ttfIn <= Minutes(15))
            /\ ttfIn = Minutes(61) => t = "LOW"
            /\ ttfIn \in {Minutes(60), Minutes(45), Minutes(31)} => t = "MODERATE"
            /\ ttfIn \in {Minutes(30), Minutes(16)} => t = "HIGH"
            /\ ttfIn \in {Minutes(15), Minutes(5)} => t = "VERY_HIGH"

\* C10 witness: the boundary value 30 was classified HIGH
C10_Witness == ttfIn = Minutes(30) /\ tierOut = Some("HIGH")

(***************************************************************************)
(* Properties of the poller.                                               *)
(***************************************************************************)
\* C4: when stop() is invoked during the inter-cycle sleep, no further cycle
\* is started and no further fetch is made after the sleep returns, and run()
\* returns.
C4_StopDuringSleep ==
    /\ [][stopInSleep => (cycles' = cycles /\ fetchCalls' = fetchCalls)]_vars
    /\ (stopInSleep ~> pc = "returned")

\* C4 witness: run() has returned after a stop() that arrived during the
\* sleep that followed the first cycle
C4_Witness == stopInSleep /\ pc = "returned" /\ cycles = 1

FullyProcessed(l) ==
    /\ loc[l].fetched # None
    /\ loc[l].weather_csv = loc[l].fetched
    /\ loc[l].computed
    /\ loc[l].risk_csv = Some(compute_raw(loc[l].fetched[1]))

\* C5: whichever locations fail in a cycle, the cycle does not abort and
\* raises nothing: the loop goes on to the next location after every
\* iteration, every location has been attempted when the cycle ends, and every
\* location that did not fail is fully processed.
C5_FailureIsolation ==
    /\ [][pc = "cycle" => pc' \in {"cycle", "after"}]_vars
    /\ [][(pc = "cycle" /\ idx' # idx) =>
            (idx' = idx + 1 /\ loc'[idx].outcome # "none")]_vars
    /\ [](pc = "after" => \A l \in Locations : loc[l].outcome # "none")
    /\ [](\A l \in Locations : loc[l].outcome = "ok" => FullyProcessed(l))

\* C5 witness: a cycle ended in which the first location failed in the
\* computation and the last one was processed
C5_Witness ==
    /\ pc = "after"
    /\ loc[1].outcome = "compute_error"
    /\ loc[NumLocations].outcome = "ok"
    /\ FullyProcessed(NumLocations)

C8_AtomicOutcome ==
    \A l \in Locations :
        loc[l].outcome \notin {"none", "ok"} =>
            /\ loc[l].weather_csv = None
            /\ loc[l].risk_csv = None

\* stop() was invoked while fetch_and_process was executing
StopInCycle == stopAt.pc \in {"begin", "cycle"}

\* C11: when stop() is invoked while a cycle is in progress, the for loop is
\* not cut short (the remaining locations are processed and all have been
\* attempted when the cycle returns), no sleep follows the cycle, no new cycle
\* is started, and run() returns.
C11_StopInCycle ==
    /\ [][(StopInCycle /\ pc = "cycle") => pc' \in {"cycle", "after"}]_vars
    /\ [](StopInCycle /\ pc = "after" =>
            \A l \in Locations : loc[l].outcome # "none")
    /\ [][StopInCycle =>
            (pc' \notin {"sleep", "retry_sleep"} /\ cycles' = cycles)]_vars
    /\ (StopInCycle ~> pc = "returned")

\* C11 witness: stop() arrived before the first location was processed, every
\* location was processed nevertheless, and run() has returned
C11_Witness ==
    /\ stopAt = [pc |-> "cycle", idx |-> 1]
    /\ pc = "returned"
    /\ \A l \in Locations : loc[l].outcome = "ok" /\ FullyProcessed(l)

\* stop() was invoked after run() was entered and before it returned
StopDuringRun == stopAt.pc \notin {"none", "idle", "returned"}

\* C12: once stop() has been invoked during run(), the state stays STOPPED,
\* no cycle and no sleep is begun any more, and run() returns, given that
\* every fetch, computation and sleep terminates.
C12_Termination ==
    /\ [](StopDuringRun => ~running)
    /\ [][StopDuringRun => cycles' = cycles]_vars
    /\ [][(StopDuringRun /\ pc' # pc) =>
            pc' \notin {"begin", "sleep", "retry_sleep"}]_vars
    /\ (StopDuringRun ~> pc = "returned")

\* C12 witness: run() has returned after a stop() that arrived during the
\* sleep that follows a failed cycle
C12_Witness ==
    /\ stopAt.pc = "retry_sleep"
    /\ pc = "returned"
    /\ failures = 1

\* C13: when an exception escapes a cycle while the poller is RUNNING, run()
\* neither returns nor propagates it: it sleeps update_interval seconds, goes
\* back to the while test and, still RUNNING, starts another cycle, however
\* many cycles have failed in a row.
C13_RetryForever ==
    /\ [][(pc = "handler" /\ running /\ pc' # pc) =>
            (pc' = "retry_sleep" /\ sleepArg' = Some(update_interval))]_vars
    /\ [][(pc = "retry_sleep" /\ pc' # pc) => pc' = "top"]_vars
    /\ [][(pc = "top" /\ running /\ pc' # pc) =>
            (pc' = "begin" /\ cycles' = cycles + 1)]_vars
    /\ ((pc = "handler" /\ running /\ cycles < MaxCycles)
            ~> (pc = "begin" \/ ~running))

\* C13 witness: MaxCycles cycles in a row have failed and run() sleeps before
\* the next one
C13_Witness ==
    /\ failures = MaxCycles
    /\ pc = "retry_sleep"
    /\ running
    /\ sleepArg = Some(update_interval)

\* C14: the state is STOPPED before run() is entered, run() sets it to
\* RUNNING, only stop() sets it back to STOPPED, run() returns only when the
\* state is STOPPED, and the state is STOPPED after stop() whatever it was
\* before.
C14_StateMachine ==
    /\ [](pc = "idle" => ~running)
    /\ [][(pc \in {"idle", "returned"} /\ pc' = "top") => running']_vars
    /\ [][(running /\ ~running') =>
            (stopAt' # NoStop
             /\ UNCHANGED <<pc, idx, loc, cycles, fetchCalls>>)]_vars
    /\ [][(pc # "returned" /\ pc' = "returned") => (~running /\ ~running')]_vars
    /\ [](stopAt # NoStop => ~running)

\* C14 witness: run() has returned after a stop() that found the state
\* RUNNING when the first cycle had just returned
C14_Witness ==
    /\ pc = "returned"
    /\ ~running
    /\ stopAt.pc = "after"
    /\ cycles = 1

(***************************************************************************)
(* Referential integrity of the risk table.                                *)
(***************************************************************************)
\* C21: every risk row references the key of an existing observation row,
\* also after store_fire_risk_prediction with a key no store_weather_data
\* call has produced.
C21_ReferentialIntegrity ==
    \A i \in 1..Len(TheDb.fire_risk_predictions) :
        HasWeatherRow(TheDb, TheDb.fire_risk_predictions[i].weather_data_hash)

(***************************************************************************)
(* The cache across close and reopen.                                      *)
(***************************************************************************)
\* C22: after the store is closed and reopened by the same path every
\* observation row and risk row written before is still retrievable, and a
\* gateway call with use_cache = true that opens the store anew for content
\* computed there before is a hit: it does not invoke compute_raw and returns
\* the series the first call returned.
C22_PersistsAcrossReopen ==
    /\ [][(ret'.seq # ret.seq /\ ret'.op = "reopen") =>
            \A p \in DbPaths, wd \in AllInputs :
                /\ get_weather_data(dbfiles'[p], compute_hash(wd))
                      = get_weather_data(dbfiles[p], compute_hash(wd))
                /\ get_fire_risk_prediction(dbfiles'[p], compute_hash(wd))
                      = get_fire_risk_prediction(dbfiles[p], compute_hash(wd))]_vars
    /\ [][(GatewayCall /\ ret'.opened
           /\ firstResult[ret'.db_path][ret'.arg] # None) =>
            /\ ~ret'.computed
            /\ computeCalls' = computeCalls
            /\ ~ret'.raised
            /\ ret'.result = firstResult[ret'.db_path][ret'.arg]
            /\ dbfiles'[ret'.db_path].fire_risk_predictions
                  = RiskTable(ret'.db_path)]_vars

\* C22 witness: after a reopen, a cached call that opened the store of the
\* default path anew was a hit on content computed once before
C22_Witness ==
    /\ ret.op = "compute_with_cache"
    /\ ret.opened
    /\ ret.db_path = DefaultPath
    /\ ~ret.computed
    /\ computeCalls = 1
    /\ ret.result = Some(compute_raw(ret.arg))
    /\ Len(dbfiles[DefaultPath].fire_risk_predictions) = 1
    /\ \A p \in DbPaths \ {DefaultPath} : dbfiles[p] = EmptyDb

(***************************************************************************)
(* Cache failures during a gateway call.                                   *)
(***************************************************************************)
\* C23: when the cache store cannot be opened, or a cache read or write fails
\* for a reason other than a duplicate key, during a gateway call with
\* use_cache = true, the error reaches the caller: the call returns no series
\* (it does not fall back to an uncached result), and it invokes compute_raw
\* at most once and appends no risk row.
C23_CacheFailurePropagates ==
    [][(ret'.seq # ret.seq /\ ret'.op = "compute_with_cache_fault") =>
         /\ ret'.raised
         /\ ret'.result = None
         /\ computeCalls' = IF ret'.fault = "store_fire_risk_prediction"
                            THEN computeCalls + 1 ELSE computeCalls
         /\ dbfiles'[ret'.db_path].fire_risk_predictions
               = RiskTable(ret'.db_path)]_vars

\* C23 witness: the final insert failed after compute_raw had run, and the
\* caller got the error and no series
C23_Witness ==
    /\ ret.op = "compute_with_cache_fault"
    /\ ret.fault = "store_fire_risk_prediction"
    /\ ret.raised
    /\ ret.result = None
    /\ ret.computed
    /\ Len(dbfiles[ret.db_path].weather_data) = 1
    /\ dbfiles[ret.db_path].fire_risk_predictions = <<>>

(***************************************************************************)
(* The publisher: failures, empty series, the disabled service.            *)
(***************************************************************************)
\* C24: a publish that raises or returns a non-success code never makes
\* publish_fire_risk_change raise: the call returns normally.
C24_PublishFailureSwallowed ==
    /\ [](~notifyRet.raised)
    /\ [][(notifyRet'.seq # notifyRet.seq
           /\ Len(published') = Len(published) + 1
           /\ published'[Len(published')].outcome # "ok") =>
            ~notifyRet'.raised]_vars

\* C24 witness: one publish raised, another returned a failure code, and the
\* last call returned normally
C24_Witness ==
    /\ Len(published) = 2
    /\ published[1].outcome = "exception"
    /\ published[2].outcome = "rc_error"
    /\ notifyRet.n > 0
    /\ ~notifyRet.raised

\* C26: publish_fire_risk_change with an empty series issues no publish and
\* leaves last_danger_level as it was, whatever its value.
C26_EmptySeriesNoOp ==
    [][(notifyRet'.seq # notifyRet.seq /\ notifyRet'.n = 0) =>
         /\ published' = published
         /\ last_danger_level' = last_danger_level
         /\ ~notifyRet'.raised]_vars

\* C26 witness: an enabled service that had published HIGH was handed an
\* empty series
C26_Witness ==
    /\ enabled
    /\ notifyRet.seq = 0
    /\ notifyRet.n = 0
    /\ last_danger_level = Some("HIGH")
    /\ Len(published) = 1

\* C27: a service constructed with enabled = false has no client, and any
\* sequence of publish_fire_risk_change calls on it issues no publish, raises
\* nothing and leaves last_danger_level unset.
C27_DisabledInert ==
    ~enabled =>
        /\ client = None
        /\ published = <<>>
        /\ last_danger_level = None
        /\ ~notifyRet.raised

\* C27 witness: a disabled service after two calls, the last one with a series
\* of two points
C27_Witness ==
    /\ ~enabled
    /\ notifyRet.seq = 0
    /\ notifyRet.n = 2
    /\ client = None
    /\ published = <<>>

\* C25: every broker connection a service has established is eventually
\* closed by disconnect (loop stopped, connection released), also when the
\* caller leaves through an exception raised between construction and
\* disconnect.
C25_ConnectionReleased ==
    (client = Some("connected")) ~> (client = Some("disconnected"))

(***************************************************************************)
(* The poller: failed fetches, empty responses, the order of the loop.     *)
(***************************************************************************)
\* C28: a location whose fetch fails in one cycle is skipped for that cycle
\* only: the configured locations stay as they are, the next cycle starts at
\* the first location again, and its loop fetches every location that failed
\* in the cycle before.
C28_FailedFetchRetried ==
    /\ [](monitored = Locations)
    /\ [][(pc = "top" /\ pc' = "begin") =>
            /\ idx' = 1
            /\ \A l \in Locations :
                  loc[l].outcome \in {"fetch_error", "fetch_crash"} =>
                      l \in prevFailed']_vars
    /\ [][(pc = "cycle" /\ idx \in prevFailed /\ idx' # idx) =>
            /\ fetchCalls' = fetchCalls + 1
            /\ loc'[idx].outcome # "none"]_vars
    /\ [](pc = "cycle" => \A l \in prevFailed : l + 1 >= idx)
    /\ [](pc = "after" => \A l \in Locations : loc[l].outcome # "none")

\* C28 witness: in the last cycle the first location, whose fetch had failed
\* in the cycle before, has been fetched again and processed
C28_Witness ==
    /\ cycles = MaxCycles
    /\ pc = "cycle"
    /\ idx = 2
    /\ 1 \in prevFailed
    /\ loc[1].outcome = "ok"
    /\ running

\* C29: when the response of a fetch holds no entry, or only entries that
\* miss a measurement, fetch_weather_data raises MetNoAPIError: the location
\* is skipped for the cycle, and neither compute nor the cache nor the two
\* output files are touched for it.
C29_EmptyResponseSkipped ==
    /\ \A l \in Locations :
          loc[l].parsed = Some(0) =>
              /\ loc[l].outcome = "fetch_error"
              /\ loc[l].fetched = None
              /\ loc[l].weather_csv = None
              /\ ~loc[l].computed
              /\ loc[l].risk_csv = None
    /\ \A l \in Locations :
          loc[l].computed => (loc[l].fetched # None /\ loc[l].fetched # Some(<<>>))
    /\ dbfiles = [p \in DbPaths |-> EmptyDb]

\* C29 witness: a cycle ended in which the response for the first location
\* held no valid point and the last location was processed
C29_Witness ==
    /\ pc = "after"
    /\ loc[1].parsed = Some(0)
    /\ loc[1].outcome = "fetch_error"
    /\ loc[NumLocations].outcome = "ok"
    /\ loc[NumLocations].parsed = Some(1)

\* C30: within one cycle every configured location is attempted exactly once,
\* in the configured order, and the fetch of a location starts only when all
\* steps of the location before it have finished or failed.
C30_SequentialInOrder ==
    /\ [](pc = "cycle" =>
            \A l \in Locations : (loc[l].outcome # "none") <=> (l < idx))
    /\ [](pc = "after" =>
            /\ idx = NumLocations + 1
            /\ \A l \in Locations : loc[l].outcome # "none")
    /\ [][(pc = "cycle" /\ loc' # loc) =>
            /\ loc[idx].outcome = "none"
            /\ loc'[idx].outcome # "none"
            /\ \A l \in Locations \ {idx} : loc'[l] = loc[l]
            /\ fetchCalls' = fetchCalls + 1
            /\ idx' = idx + 1]_vars
    /\ [][fetchCalls' # fetchCalls => (pc = "cycle" /\ loc' # loc)]_vars

\* C30 witness: the first cycle has attempted every location, with one fetch
\* for each
C30_Witness ==
    /\ pc = "after"
    /\ cycles = 1
    /\ fetchCalls = NumLocations
    /\ \A l \in Locations : loc[l].outcome # "none"
    /\ loc[1].outcome = "fetch_error"

(***************************************************************************)
(* Ingestion of a response.                                                *)
(***************************************************************************)
\* C31: the observation set _parse_met_response returns holds exactly the
\* entries within the horizon that carry all three measurements, in source
\* order and with the values of the entry; an entry missing a measurement
\* contributes no point; the set is returned whenever one complete entry
\* within the horizon remains, and the call raises only when none does.
C31_DropsIncompletePoints ==
    parseCall.result # None =>
        LET ts == parseCall.timeseries
            r == parseCall.result[1]
            K == {i \in 1..Len(ts) :
                    /\ ts[i].time - ts[1].time <= forecast_hours
                    /\ ts[i].air_temperature # None
                    /\ ts[i].relative_humidity # None
                    /\ ts[i].wind_speed # None}
            Nth(j) == CHOOSE i \in K : Cardinality({k \in K : k < i}) = j - 1
        IN  /\ r.raised <=> K = {}
            /\ Len(r.data) = Cardinality(K)
            /\ \A j \in 1..Len(r.data) :
                  r.data[j] = Pt(ts[Nth(j)].time, ts[Nth(j)].air_temperature[1],
                                 ts[Nth(j)].relative_humidity[1],
                                 ts[Nth(j)].wind_speed[1])

\* C31 witness: of two entries within the horizon the first misses the
\* humidity, and the set returned holds the second one only
C31_Witness ==
    /\ parseCall.result # None
    /\ Len(parseCall.timeseries) = 2
    /\ parseCall.timeseries[1].relative_humidity = None
    /\ parseCall.timeseries[1].air_temperature # None
    /\ parseCall.timeseries[2].time = 2
    /\ ~parseCall.result[1].raised
    /\ parseCall.result[1].data = <<Pt(2, 10, 80, 5)>>

\* C32: the tier that publish_fire_risk_change compares with the tracker state
\* and publishes is the classification of the point with the greatest
\* timestamp of the series, whatever the order of the points: after a call
\* with a non-empty series on an enabled service the tracker state is the tier
\* of that point, and a notification published by the call carries its
\* timestamp-greatest point's tier.  (The code takes firerisks[-1], the last
\* element of the list, so this fails for a series that is not in
\* chronological order.)
C32_ClassifiesChronologicallyLast ==
    (enabled /\ notifyRet.n > 0) =>
        last_danger_level = Some(from_ttf(notifyRet.newest))

\* C34: last_danger_level tracks the last classification, not the last
\* delivery: when the publish of a notify call on an enabled service fails
\* (client.publish raises or returns a non-success code), last_danger_level is
\* still set to the new tier, and a following call whose tier is the one of
\* the failed notification issues no publish, so the failed notification is
\* never sent again.
C34_TracksClassification ==
    /\ [][(/\ NotifyCounted
           /\ Len(published') = Len(published) + 1
           /\ published'[Len(published')].outcome # "ok") =>
            last_danger_level' = Some(published'[Len(published')].danger_level)
       ]_vars
    /\ [][(/\ NotifyCounted
           /\ published # <<>>
           /\ published[Len(published)].outcome # "ok"
           /\ from_ttf(fed'[Len(fed')]) = published[Len(published)].danger_level) =>
            UNCHANGED <<published, last_danger_level>>
       ]_vars

\* C34 witness: the publish of HIGH raised, and the next HIGH series was not
\* published
C34_Witness ==
    /\ fed = <<Minutes(20), Minutes(25)>>
    /\ Len(published) = 1
    /\ published[1].outcome = "exception"
    /\ published[1].danger_level = "HIGH"
    /\ last_danger_level = Some("HIGH")

\* C35: on an enabled service, after any sequence of notify calls,
\* last_danger_level is the tier of the last point of the most recent
\* non-empty series, or unset if there was none; once set it is never reset.
C35_TrackerInvariant ==
    /\ [](enabled =>
            last_danger_level = IF fed = <<>> THEN None
                                ELSE Some(from_ttf(fed[Len(fed)])))
    /\ [][last_danger_level # None => last_danger_level' # None]_vars

\* C35 witness: two non-empty series, LOW then VERY_HIGH, followed by an empty
\* one: the tracker still holds VERY_HIGH
C35_Witness ==
    /\ enabled
    /\ fed = <<Minutes(61), Minutes(10)>>
    /\ notifyRet.n = 0
    /\ last_danger_level = Some("VERY_HIGH")
    /\ Len(published) = 2

C36_EarlyStopLost ==
    /\ [][(lostStop /\ pc = "idle" /\ pc' = "top") => (running' /\ lostStop')]_vars
    /\ [](lostStop /\ pc # "idle" => running)
    /\ [][(lostStop /\ pc = "top" /\ pc' # pc) =>
            (pc' = "begin" /\ cycles' = cycles + 1)]_vars
    /\ [][(lostStop /\ pc = "after" /\ pc' # pc) => pc' = "sleep"]_vars
    /\ [][(lostStop /\ pc = "handler" /\ pc' # pc) => pc' = "retry_sleep"]_vars
    /\ ((lostStop /\ pc = "top") ~> (cycles > 0 \/ ~lostStop))

\* C36 witness: stop() was invoked before run(), and run() has completed its
\* first cycle with every location fetched and is still RUNNING
C36_Witness ==
    /\ lostStop
    /\ pc = "after"
    /\ running
    /\ cycles = 1
    /\ fetchCalls = NumLocations

\* C37: a failed computation does not poison the cache: when compute_raw
\* raises during a compute_with_cache call with use_cache = true, the
\* observation row of the content is in the table, the risk table is as it was
\* (no risk row for the key), and the next gateway call with the same content
\* on that cache invokes compute_raw again instead of returning a cached value.
C37_FailedComputeNotCached ==
    /\ [][(GatewayCall /\ ret'.use_cache /\ ret'.raised) =>
            LET p == ret'.db_path
                k == compute_hash(ret'.arg)
            IN  /\ ret'.computed
                /\ computeCalls' = computeCalls + 1
                /\ Cardinality(WeatherRowsOf(dbfiles'[p], k)) = 1
                /\ dbfiles'[p].fire_risk_predictions = RiskTable(p)
                /\ RiskRowsOf(dbfiles'[p], k) = {}
       ]_vars
    /\ [][(/\ GatewayCall
           /\ ret.op = "compute_with_cache" /\ ret.use_cache /\ ret.raised
           /\ ret'.use_cache
           /\ ret'.arg = ret.arg
           /\ ret'.db_path = ret.db_path) =>
            /\ ret'.computed
            /\ computeCalls' = computeCalls + 1
            /\ ~ret'.raised => ret'.result = Some(compute_raw(ret'.arg))
       ]_vars

\* C37 witness: the first cached call of a content raised in compute_raw: its
\* observation row is stored and the risk table is empty
C37_Witness ==
    /\ ret.op = "compute_with_cache"
    /\ ret.use_cache
    /\ ret.raised
    /\ ret.arg = WdA
    /\ computeCalls = 1
    /\ Len(dbfiles[ret.db_path].weather_data) = 1
    /\ dbfiles[ret.db_path].fire_risk_predictions = <<>>

\* C38: the module-level accessor keeps at most one open store.  An instance
\* whose connection is open is the one _database refers to; get_database(p)
\* with the path of the current instance returns that instance and creates
\* nothing; with a different path it closes the current instance before it
\* creates the new one, so the earlier instance has conn = None and the next
\* cache operation of any holder of it raises.
C38_AtMostOneOpen ==
    /\ [](\A i \in 1..Len(acc.instances) :
            acc.instances[i].open => i = acc.current)
    /\ [][(acc'.ret.seq # acc.ret.seq /\ acc'.ret.op = "get_database") =>
            LET cur == acc.current
                p == acc'.ret.db_path
            IN  /\ (cur # 0 /\ acc.instances[cur].db_path = p) =>
                      /\ acc'.ret.result = cur
                      /\ ~acc'.ret.raised
                      /\ acc'.instances = acc.instances
                      /\ acc'.current = cur
                /\ (cur # 0 /\ acc.instances[cur].db_path # p) =>
                      /\ ~acc'.instances[cur].open
                      /\ ~acc'.ret.raised =>
                            /\ acc'.ret.result = Len(acc.instances) + 1
                            /\ acc'.current = acc'.ret.result
                            /\ acc'.instances[acc'.ret.result]
                                  = [db_path |-> p, open |-> TRUE]
       ]_vars
    /\ [][(acc'.ret.seq # acc.ret.seq /\ acc'.ret.op = "use") =>
            /\ acc'.ret.raised <=> ~acc.instances[acc'.ret.result].open
            /\ acc'.ret.result # acc.current => acc'.ret.raised
       ]_vars

\* C38 witness: get_database was called with two paths in turn, and the
\* holder of the first instance then used it: its operation raised
C38_Witness ==
    /\ Len(acc.instances) = 2
    /\ acc.current = 2
    /\ ~acc.instances[1].open
    /\ acc.instances[2].open
    /\ acc.ret.op = "use"
    /\ acc.ret.result = 1
    /\ acc.ret.raised

\* C39: the tracker state is per instance and not persisted: every newly
\* constructed enabled service starts with last_danger_level unset, so its
\* first publish_fire_risk_change with a non-empty series always publishes the
\* tier of that series, even when the previous instance published the same
\* tier; a caller that constructs a service per run (console_main) therefore
\* publishes in every run.
C39_TrackerPerInstance ==
    /\ [][(client # Some("connected") /\ client' = Some("connected")) =>
            (last_danger_level' = None /\ published' = published)]_vars
    /\ [][(NotifyCounted /\ fed = <<>>) =>
            /\ last_danger_level = None
            /\ Len(published') = Len(published) + 1
            /\ published'[Len(published')].danger_level = from_ttf(fed'[1])
            /\ SubSeq(published', 1, Len(published)) = published
       ]_vars

\* C39 witness: two instances in turn were each handed a HIGH series once, and
\* HIGH was published twice
C39_Witness ==
    /\ Len(published) = 2
    /\ published[1].danger_level = "HIGH"
    /\ published[2].danger_level = "HIGH"
    /\ fed = <<Minutes(20)>>
    /\ last_danger_level = Some("HIGH")

====
